---------------------------- MODULE Spec2Model ----------------------------
(***************************************************************************)
(* TaxiGreen: a model of the city graph (src/src/core/grafo.py), of the    *)
(* six route-search strategies (src/src/algorithms), of the request and    *)
(* station state machines (src/src/core/pedido.py, estacao.py) and of the  *)
(* simulator tick (src/src/simulacao.py).                                  *)
(*                                                                         *)
(* Numbers.  Distances are whole kilometres and times whole minutes; the   *)
(* inputs are chosen so that every quantity the code computes with floats  *)
(* is a whole number (even distances, so that distance/40*60 is whole, and *)
(* coordinates on a 6 x 8 rectangle, whose diagonal is 10).                *)
(***************************************************************************)
EXTENDS Integers, Sequences, FiniteSets, TLC

VARIABLES
    grafo,        \* the Grafo object: [direcional, nos, arestas]
    carregado,    \* the Grafo returned by carregar_json(salvar_json(grafo)), or None
    resultado,    \* the last search call and the Resultado* object it returned, or None
    pedido,       \* the Pedido object
    verificacao,  \* the last verificar_e_escalar_prioridade call: its time, what it
                  \* found and returned, and how many calls have escalated so far
    estacao,      \* the Estacao object
    veiculos,     \* the Veiculo objects, by id
    agora,        \* the clock the station calls take their timestamp from, in minutes
    evento,       \* the last station call: what it was and what it finalized
    sim,          \* the Simulador object
    relogio,      \* datetime.now(), in seconds since the Simulador was constructed
    ultimo,       \* what the last correr_passo did: the requests it expired, what
                  \* random gave it, the plan it found and the trips it aborted
    gemeo,        \* a second run of the simulator, with its own wall clock:
                  \* [sim, relogio], or None
    memoria       \* the objects of one call of the planner, by address, and
                  \* where the call is: [mem, real, queue, ...], or None

vars_grafo == <<grafo, carregado, resultado>>

vars_pedido == <<pedido, verificacao>>

vars_estacao == <<estacao, veiculos, agora, evento>>

vars_sim == <<sim, relogio, ultimo>>

vars_gemeo == <<gemeo>>

vars_memoria == <<memoria>>

vars == <<vars_grafo, vars_pedido, vars_estacao, vars_sim, vars_gemeo, vars_memoria>>

\* what the graph and search specifications leave alone
fora_do_grafo == <<vars_pedido, vars_estacao, vars_sim, vars_gemeo, vars_memoria>>

\* what the request specification leaves alone
fora_do_pedido == <<vars_grafo, vars_estacao, vars_sim, vars_gemeo, vars_memoria>>

\* what the station specification leaves alone
fora_da_estacao == <<vars_grafo, vars_pedido, vars_sim, vars_gemeo, vars_memoria>>

\* what a run of the simulator leaves alone
fora_do_sim == <<vars_grafo, vars_pedido, vars_estacao, vars_gemeo, vars_memoria>>

(***************************************************************************)
(* Python's None.  TLC compares values of one kind only, so None is        *)
(* written per kind: None where an object is expected, NoneId where a node *)
(* or vehicle id is expected, NoneNum where a number is expected.  An      *)
(* absent list is the empty sequence.                                      *)
(***************************************************************************)
None == [classe |-> "NoneType"]

NoneId == "None"

NoneNum == -1

(***************************************************************************)
(* float('inf'), the default custo_total of every Resultado* class and the *)
(* value of distancia_euclidiana on an unknown node.                       *)
(***************************************************************************)
Inf == 1000000

-----------------------------------------------------------------------------
(* Helpers on sequences. *)

Range(s) == {s[i] : i \in 1..Len(s)}

\* [x] + list, list + [x], reversed(list)
RECURSIVE Reverse(_)
Reverse(s) == IF s = <<>> THEN <<>> ELSE Append(Reverse(Tail(s)), Head(s))

\* math.sqrt on the perfect squares the chosen coordinates produce
Raiz(n) == CHOOSE r \in 0..n : r * r = n

-----------------------------------------------------------------------------
(***************************************************************************)
(* grafo.py: No, Aresta, Grafo.  Python dicts keep insertion order, and    *)
(* the searches iterate them, so nos and arestas are sequences in          *)
(* insertion order.  arestas is the two-level dict arestas[origem][destino]*)
(* flattened: a new key is appended, an existing key is replaced in place. *)
(* The outer dict's order is the order in which each origem first got an   *)
(* edge, which the flat sequence keeps (nothing is ever deleted).          *)
(***************************************************************************)

ZONA_PICKUP == "zona_pickup"
ESTACAO_RECARGA == "estacao_recarga"
POSTO_ABASTECIMENTO == "posto_abastecimento"
ZONA_MISTA == "zona_mista"

No(id, tipo, coords, capacidade_recarga, zona) ==
    [id |-> id, tipo |-> tipo, coords |-> coords,
     capacidade_recarga |-> capacidade_recarga, zona |-> zona]

\* Aresta.__init__: a tempo_base of None or 0 is replaced by the time at 40 km/h
Aresta(origem, destino, distancia, tempo_base, fator_transito) ==
    [origem |-> origem, destino |-> destino, distancia |-> distancia,
     tempo_base |-> IF tempo_base # NoneNum /\ tempo_base # 0
                    THEN tempo_base
                    ELSE (distancia * 60) \div 40,
     fator_transito |-> fator_transito]

tempo_atual(aresta) == aresta.tempo_base * aresta.fator_transito

Grafo(direcional) == [direcional |-> direcional, nos |-> <<>>, arestas |-> <<>>]

IdsNos(g) == {g.nos[i].id : i \in 1..Len(g.nos)}

ObterNo(g, id) == g.nos[CHOOSE i \in 1..Len(g.nos) : g.nos[i].id = id]

\* self.nos[id] = no
adicionar_no(g, id, tipo, coords, capacidade_recarga, zona) ==
    LET no == No(id, tipo, coords, capacidade_recarga, zona) IN
    [g EXCEPT !.nos =
        IF id \in IdsNos(g)
        THEN [i \in 1..Len(g.nos) |-> IF g.nos[i].id = id THEN no ELSE g.nos[i]]
        ELSE Append(g.nos, no)]

TemAresta(arestas, origem, destino) ==
    \E i \in 1..Len(arestas) :
        arestas[i].origem = origem /\ arestas[i].destino = destino

ObterAresta(arestas, origem, destino) ==
    arestas[CHOOSE i \in 1..Len(arestas) :
                arestas[i].origem = origem /\ arestas[i].destino = destino]

\* self.arestas[a.origem][a.destino] = a
PorAresta(arestas, a) ==
    IF TemAresta(arestas, a.origem, a.destino)
    THEN [i \in 1..Len(arestas) |->
            IF arestas[i].origem = a.origem /\ arestas[i].destino = a.destino
            THEN a ELSE arestas[i]]
    ELSE Append(arestas, a)

distancia_euclidiana(g, no1, no2) ==
    IF no1 \notin IdsNos(g) \/ no2 \notin IdsNos(g)
    THEN Inf
    ELSE LET c1 == ObterNo(g, no1).coords
             c2 == ObterNo(g, no2).coords
         IN Raiz((c2[1] - c1[1]) * (c2[1] - c1[1]) + (c2[2] - c1[2]) * (c2[2] - c1[2]))

\* adicionar_aresta raises ValueError on an unknown node: the graph is unchanged
adicionar_aresta_ok(g, origem, destino) ==
    origem \in IdsNos(g) /\ destino \in IdsNos(g)

adicionar_aresta(g, origem, destino, distancia, tempo_base, fator_transito, bidirecional) ==
    IF ~adicionar_aresta_ok(g, origem, destino) THEN g
    ELSE
    LET dist == IF distancia = NoneNum THEN distancia_euclidiana(g, origem, destino)
                ELSE distancia
        com_aresta == PorAresta(g.arestas,
                                Aresta(origem, destino, dist, tempo_base, fator_transito))
    IN [g EXCEPT !.arestas =
            IF ~g.direcional \/ bidirecional
            THEN PorAresta(com_aresta,
                           Aresta(destino, origem, dist, tempo_base, fator_transito))
            ELSE com_aresta]

\* the edges leaving no_id, in the order of the inner dict
obter_vizinhos(g, no_id) == SelectSeq(g.arestas, LAMBDA a : a.origem = no_id)

atualizar_transito(g, origem, destino, fator) ==
    IF TemAresta(g.arestas, origem, destino)
    THEN [g EXCEPT !.arestas =
            [i \in 1..Len(g.arestas) |->
                IF g.arestas[i].origem = origem /\ g.arestas[i].destino = destino
                THEN [g.arestas[i] EXCEPT !.fator_transito = fator]
                ELSE g.arestas[i]]]
    ELSE g

validar_caminho(g, caminho) ==
    /\ caminho # <<>>
    /\ \A i \in 1..(Len(caminho) - 1) :
        /\ caminho[i] \in IdsNos(g)
        /\ caminho[i + 1] \in IdsNos(g)
        /\ TemAresta(g.arestas, caminho[i], caminho[i + 1])

\* the length of the street under either metric
SoADistancia(aresta, metrica) == aresta.distancia

CustoAresta(aresta, metrica) ==
    IF metrica = "distancia" THEN aresta.distancia ELSE tempo_atual(aresta)

RECURSIVE SomaCaminho(_, _, _, _)
SomaCaminho(g, caminho, metrica, i) ==
    IF i >= Len(caminho) THEN 0
    ELSE (IF metrica = "distancia"
          THEN ObterAresta(g.arestas, caminho[i], caminho[i + 1]).distancia
          ELSE IF metrica = "tempo"
          THEN tempo_atual(ObterAresta(g.arestas, caminho[i], caminho[i + 1]))
          ELSE 0)
         + SomaCaminho(g, caminho, metrica, i + 1)

calcular_custo_caminho(g, caminho, metrica) ==
    IF ~validar_caminho(g, caminho) THEN Inf ELSE SomaCaminho(g, caminho, metrica, 1)

(***************************************************************************)
(* salvar_json / carregar_json.  The file holds the direcional flag, one   *)
(* entry per node (tipo, coords, capacidade_recarga: the zona is not       *)
(* written) and the list of edge records, origin by origin in the order of *)
(* the outer dict.  json writes a number and reads the same number back.   *)
(***************************************************************************)

\* the keys of the outer dict arestas, in insertion order
RECURSIVE OrigensEmOrdem(_, _, _)
OrigensEmOrdem(arestas, i, vistas) ==
    IF i > Len(arestas) THEN vistas
    ELSE OrigensEmOrdem(arestas, i + 1,
                        IF arestas[i].origem \in Range(vistas) THEN vistas
                        ELSE Append(vistas, arestas[i].origem))

\* for vizinhos in self.arestas.values() for aresta in vizinhos.values()
RECURSIVE ArestasPorOrigem(_, _, _)
ArestasPorOrigem(arestas, origens, i) ==
    IF i > Len(origens) THEN <<>>
    ELSE SelectSeq(arestas, LAMBDA a : a.origem = origens[i])
         \o ArestasPorOrigem(arestas, origens, i + 1)

salvar_json(g) ==
    [direcional |-> g.direcional,
     nos |-> [i \in 1..Len(g.nos) |->
                [id |-> g.nos[i].id, tipo |-> g.nos[i].tipo, coords |-> g.nos[i].coords,
                 capacidade_recarga |-> g.nos[i].capacidade_recarga]],
     arestas |-> ArestasPorOrigem(g.arestas, OrigensEmOrdem(g.arestas, 1, <<>>), 1)]

RECURSIVE CarregarNos(_, _, _)
CarregarNos(g, nos, i) ==
    IF i > Len(nos) THEN g
    ELSE CarregarNos(adicionar_no(g, nos[i].id, nos[i].tipo, nos[i].coords,
                                  nos[i].capacidade_recarga,
                                  IF "zona" \in DOMAIN nos[i] THEN nos[i].zona
                                  ELSE "periferia"),
                     nos, i + 1)

\* the loop over dados['arestas']; arestas_processadas holds the unordered pairs
RECURSIVE CarregarArestas(_, _, _, _)
CarregarArestas(g, arestas, i, arestas_processadas) ==
    IF i > Len(arestas) THEN g
    ELSE
    LET info == arestas[i]
        aresta_key == {info.origem, info.destino}
    IN  IF ~g.direcional /\ aresta_key \in arestas_processadas
        THEN CarregarArestas(g, arestas, i + 1, arestas_processadas)
        ELSE CarregarArestas(
                adicionar_aresta(g, info.origem, info.destino, info.distancia,
                                 info.tempo_base, info.fator_transito, ~g.direcional),
                arestas, i + 1, arestas_processadas \cup {aresta_key})

carregar_json(dados) ==
    CarregarArestas(CarregarNos(Grafo(dados.direcional), dados.nos, 1),
                    dados.arestas, 1, {})

-----------------------------------------------------------------------------
(***************************************************************************)
(* The Resultado* classes (one per strategy): only the fields the          *)
(* strategies share.  A failure is Resultado*(sucesso=False), which has    *)
(* the default caminho [] and the default custo_total float('inf').        *)
(***************************************************************************)

Resultado(caminho, custo_total, nos_expandidos, sucesso, metrica) ==
    [caminho |-> caminho, custo_total |-> custo_total,
     nos_expandidos |-> nos_expandidos, sucesso |-> sucesso, metrica |-> metrica]

Falha(nos_expandidos, metrica) == Resultado(<<>>, Inf, nos_expandidos, FALSE, metrica)

(***************************************************************************)
(* Python compares the heap's tuples field by field, node ids as strings.  *)
(* The node ids of the model are single letters, ordered as listed here.   *)
(***************************************************************************)
NomesOrdenados == <<"A", "B", "C", "D", "Z">>

Ord(id) == CHOOSE i \in 1..Len(NomesOrdenados) : NomesOrdenados[i] = id

\* list < list, on lists of node ids
RECURSIVE ListaMenor(_, _)
ListaMenor(p, q) ==
    IF q = <<>> THEN FALSE
    ELSE IF p = <<>> THEN TRUE
    ELSE IF Head(p) # Head(q) THEN Ord(Head(p)) < Ord(Head(q))
    ELSE ListaMenor(Tail(p), Tail(q))

\* the chain of predecessores from destino back to the origin, reversed
RECURSIVE ReconstruirCaminho(_, _)
ReconstruirCaminho(predecessores, no) ==
    IF no = NoneId THEN <<>>
    ELSE Append(ReconstruirCaminho(predecessores, predecessores[no]), no)

(***************************************************************************)
(* heuristicas.py.  A heuristic is a callable (grafo, no, destino); the    *)
(* model passes either None (the strategies then use                       *)
(* heuristica_distancia_euclidiana) or a table of values per node.         *)
(***************************************************************************)
heuristica_distancia_euclidiana(g, no_atual, no_destino) ==
    IF no_atual \notin IdsNos(g) \/ no_destino \notin IdsNos(g)
    THEN Inf
    ELSE distancia_euclidiana(g, no_atual, no_destino)

Heuristica(heuristica, g, no, destino) ==
    IF heuristica = None THEN heuristica_distancia_euclidiana(g, no, destino)
    ELSE heuristica[no]

-----------------------------------------------------------------------------
(* custo-uniforme.py: custo_uniforme.  fila_prioridade holds (custo, no). *)

\* a frontier ordered by node name before accumulated cost
CU_MenorPorNome(a, b) ==
    \/ Ord(a[2]) < Ord(b[2])
    \/ a[2] = b[2] /\ a[1] < b[1]

CU_Menor(a, b) == a[1] < b[1] \/ (a[1] = b[1] /\ Ord(a[2]) < Ord(b[2]))

CU_Pop(fila) == CHOOSE a \in fila : \A b \in fila \ {a} : CU_Menor(a, b)

\* the for loop over vizinhos.items(), from index i on; st = [fila, custos, predecessores]
RECURSIVE CU_Expandir(_, _, _, _, _, _, _)
CU_Expandir(vizinhos, i, custo_atual, no_atual, metrica, visitados, st) ==
    IF i > Len(vizinhos) THEN st
    ELSE
    LET aresta == vizinhos[i]
        vizinho == aresta.destino
        novo_custo == custo_atual + CustoAresta(aresta, metrica)
    IN  IF vizinho \in visitados
        THEN CU_Expandir(vizinhos, i + 1, custo_atual, no_atual, metrica, visitados, st)
        ELSE IF vizinho \notin DOMAIN st.custos \/ novo_custo < st.custos[vizinho]
        THEN CU_Expandir(vizinhos, i + 1, custo_atual, no_atual, metrica, visitados,
                [fila |-> st.fila \cup {<<novo_custo, vizinho>>},
                 custos |-> (vizinho :> novo_custo) @@ st.custos,
                 predecessores |-> (vizinho :> no_atual) @@ st.predecessores])
        ELSE CU_Expandir(vizinhos, i + 1, custo_atual, no_atual, metrica, visitados, st)

\* the while loop
RECURSIVE CU_Loop(_, _, _, _, _, _)
CU_Loop(g, destino, metrica, st, visitados, nos_expandidos) ==
    IF st.fila = {} THEN Falha(nos_expandidos, metrica)
    ELSE
    LET topo == CU_Pop(st.fila)
        custo_atual == topo[1]
        no_atual == topo[2]
        resto == [st EXCEPT !.fila = st.fila \ {topo}]
    IN  IF no_atual \in visitados
        THEN CU_Loop(g, destino, metrica, resto, visitados, nos_expandidos)
        ELSE IF no_atual = destino
        THEN Resultado(ReconstruirCaminho(st.predecessores, destino), custo_atual,
                       nos_expandidos + 1, TRUE, metrica)
        ELSE CU_Loop(g, destino, metrica,
                     CU_Expandir(obter_vizinhos(g, no_atual), 1, custo_atual, no_atual,
                                 metrica, visitados \cup {no_atual}, resto),
                     visitados \cup {no_atual}, nos_expandidos + 1)

custo_uniforme(g, origem, destino, metrica) ==
    IF origem \notin IdsNos(g) THEN Falha(0, metrica)
    ELSE IF destino \notin IdsNos(g) THEN Falha(0, metrica)
    ELSE IF origem = destino THEN Resultado(<<origem>>, 0, 0, TRUE, metrica)
    ELSE CU_Loop(g, destino, metrica,
                 [fila |-> {<<0, origem>>},
                  custos |-> (origem :> 0),
                  predecessores |-> (origem :> NoneId)],
                 {}, 0)

-----------------------------------------------------------------------------
(* astar.py: astar.  fila_prioridade holds (f, g, no). *)

AS_Menor(a, b) ==
    \/ a[1] < b[1]
    \/ a[1] = b[1] /\ a[2] < b[2]
    \/ a[1] = b[1] /\ a[2] = b[2] /\ Ord(a[3]) < Ord(b[3])

AS_Pop(fila) == CHOOSE a \in fila : \A b \in fila \ {a} : AS_Menor(a, b)

\* st = [fila, custos_g, predecessores]
RECURSIVE AS_Expandir(_, _, _, _, _, _, _, _, _, _)
AS_Expandir(g, destino, heuristica, vizinhos, i, g_atual, no_atual, metrica, visitados, st) ==
    IF i > Len(vizinhos) THEN st
    ELSE
    LET aresta == vizinhos[i]
        vizinho == aresta.destino
        novo_g == g_atual + CustoAresta(aresta, metrica)
        f_vizinho == novo_g + Heuristica(heuristica, g, vizinho, destino)
    IN  IF vizinho \in visitados
        THEN AS_Expandir(g, destino, heuristica, vizinhos, i + 1, g_atual, no_atual,
                         metrica, visitados, st)
        ELSE IF vizinho \notin DOMAIN st.custos_g \/ novo_g < st.custos_g[vizinho]
        THEN AS_Expandir(g, destino, heuristica, vizinhos, i + 1, g_atual, no_atual,
                         metrica, visitados,
                [fila |-> st.fila \cup {<<f_vizinho, novo_g, vizinho>>},
                 custos_g |-> (vizinho :> novo_g) @@ st.custos_g,
                 predecessores |-> (vizinho :> no_atual) @@ st.predecessores])
        ELSE AS_Expandir(g, destino, heuristica, vizinhos, i + 1, g_atual, no_atual,
                         metrica, visitados, st)

RECURSIVE AS_Loop(_, _, _, _, _, _, _)
AS_Loop(g, destino, metrica, heuristica, st, visitados, nos_expandidos) ==
    IF st.fila = {} THEN Falha(nos_expandidos, metrica)
    ELSE
    LET topo == AS_Pop(st.fila)
        g_atual == topo[2]
        no_atual == topo[3]
        resto == [st EXCEPT !.fila = st.fila \ {topo}]
    IN  IF no_atual \in visitados
        THEN AS_Loop(g, destino, metrica, heuristica, resto, visitados, nos_expandidos)
        ELSE IF no_atual = destino
        THEN Resultado(ReconstruirCaminho(st.predecessores, destino), g_atual,
                       nos_expandidos + 1, TRUE, metrica)
        ELSE AS_Loop(g, destino, metrica, heuristica,
                     AS_Expandir(g, destino, heuristica, obter_vizinhos(g, no_atual), 1,
                                 g_atual, no_atual, metrica,
                                 visitados \cup {no_atual}, resto),
                     visitados \cup {no_atual}, nos_expandidos + 1)

astar(g, origem, destino, metrica, heuristica) ==
    IF origem \notin IdsNos(g) THEN Falha(0, metrica)
    ELSE IF destino \notin IdsNos(g) THEN Falha(0, metrica)
    ELSE IF origem = destino THEN Resultado(<<origem>>, 0, 0, TRUE, metrica)
    ELSE AS_Loop(g, destino, metrica, heuristica,
                 [fila |-> {<<Heuristica(heuristica, g, origem, destino), 0, origem>>},
                  custos_g |-> (origem :> 0),
                  predecessores |-> (origem :> NoneId)],
                 {}, 0)

-----------------------------------------------------------------------------
(* greedy.py: greedy.  fila_prioridade holds (h, no, caminho, g). *)

GR_Menor(a, b) ==
    \/ a[1] < b[1]
    \/ a[1] = b[1] /\ Ord(a[2]) < Ord(b[2])
    \/ a[1] = b[1] /\ a[2] = b[2] /\ ListaMenor(a[3], b[3])
    \/ a[1] = b[1] /\ a[2] = b[2] /\ a[3] = b[3] /\ a[4] < b[4]

GR_Pop(fila) == CHOOSE a \in fila : \A b \in fila \ {a} : GR_Menor(a, b)

RECURSIVE GR_Expandir(_, _, _, _, _, _, _, _, _, _)
GR_Expandir(g, destino, heuristica, vizinhos, i, g_atual, caminho_atual, metrica, visitados, fila) ==
    IF i > Len(vizinhos) THEN fila
    ELSE
    LET aresta == vizinhos[i]
        vizinho == aresta.destino
        novo_g == g_atual + CustoAresta(aresta, metrica)
        h_vizinho == Heuristica(heuristica, g, vizinho, destino)
    IN  GR_Expandir(g, destino, heuristica, vizinhos, i + 1, g_atual, caminho_atual,
                    metrica, visitados,
                    IF vizinho \in visitados THEN fila
                    ELSE fila \cup {<<h_vizinho, vizinho, Append(caminho_atual, vizinho), novo_g>>})

RECURSIVE GR_Loop(_, _, _, _, _, _, _)
GR_Loop(g, destino, metrica, heuristica, fila, visitados, nos_expandidos) ==
    IF fila = {} THEN Falha(nos_expandidos, metrica)
    ELSE
    LET topo == GR_Pop(fila)
        no_atual == topo[2]
        caminho_atual == topo[3]
        g_atual == topo[4]
        resto == fila \ {topo}
    IN  IF no_atual \in visitados
        THEN GR_Loop(g, destino, metrica, heuristica, resto, visitados, nos_expandidos)
        ELSE IF no_atual = destino
        THEN Resultado(caminho_atual, g_atual, nos_expandidos + 1, TRUE, metrica)
        ELSE GR_Loop(g, destino, metrica, heuristica,
                     GR_Expandir(g, destino, heuristica, obter_vizinhos(g, no_atual), 1,
                                 g_atual, caminho_atual, metrica,
                                 visitados \cup {no_atual}, resto),
                     visitados \cup {no_atual}, nos_expandidos + 1)

greedy(g, origem, destino, metrica, heuristica) ==
    IF origem \notin IdsNos(g) THEN Falha(0, metrica)
    ELSE IF destino \notin IdsNos(g) THEN Falha(0, metrica)
    ELSE IF origem = destino THEN Resultado(<<origem>>, 0, 0, TRUE, metrica)
    ELSE GR_Loop(g, destino, metrica, heuristica,
                 {<<Heuristica(heuristica, g, origem, destino), origem, <<origem>>, 0>>},
                 {}, 0)

-----------------------------------------------------------------------------
(* hill-climbing.py: hill_climbing. *)

\* the for loop over the neighbours: m = [vizinho, h, custo_aresta], the best so far
RECURSIVE HC_Melhor(_, _, _, _, _, _, _, _)
HC_Melhor(g, destino, heuristica, vizinhos, i, metrica, visitados, m) ==
    IF i > Len(vizinhos) THEN m
    ELSE
    LET aresta == vizinhos[i]
        vizinho == aresta.destino
        h_vizinho == Heuristica(heuristica, g, vizinho, destino)
    IN  HC_Melhor(g, destino, heuristica, vizinhos, i + 1, metrica, visitados,
                  IF vizinho \notin visitados /\ h_vizinho < m.h
                  THEN [vizinho |-> vizinho, h |-> h_vizinho,
                        custo_aresta |-> CustoAresta(aresta, metrica)]
                  ELSE m)

\* a Resultado with the caminho walked so far and sucesso = False (ficou_preso)
RECURSIVE HC_Loop(_, _, _, _, _, _, _, _, _, _)
HC_Loop(g, destino, metrica, heuristica, iteracao, max_iteracoes, no_atual, caminho, custo_acumulado, visitados) ==
    IF iteracao >= max_iteracoes
    THEN Resultado(caminho, custo_acumulado, iteracao, FALSE, metrica)
    ELSE IF no_atual = destino
    THEN Resultado(caminho, custo_acumulado, iteracao + 1, TRUE, metrica)
    ELSE
    LET m == HC_Melhor(g, destino, heuristica, obter_vizinhos(g, no_atual), 1, metrica,
                       visitados, [vizinho |-> NoneId, h |-> Inf, custo_aresta |-> 0])
    IN  IF m.vizinho = NoneId
        THEN Resultado(caminho, custo_acumulado, iteracao + 1, FALSE, metrica)
        ELSE IF m.h >= Heuristica(heuristica, g, no_atual, destino)
        THEN Resultado(caminho, custo_acumulado, iteracao + 1, FALSE, metrica)
        ELSE HC_Loop(g, destino, metrica, heuristica, iteracao + 1, max_iteracoes,
                     m.vizinho, Append(caminho, m.vizinho),
                     custo_acumulado + m.custo_aresta, visitados \cup {m.vizinho})

hill_climbing(g, origem, destino, metrica, heuristica, max_iteracoes) ==
    IF origem \notin IdsNos(g) \/ destino \notin IdsNos(g) THEN Falha(0, metrica)
    ELSE IF origem = destino THEN Resultado(<<origem>>, 0, 0, TRUE, metrica)
    ELSE HC_Loop(g, destino, metrica, heuristica, 0, max_iteracoes,
                 origem, <<origem>>, 0, {origem})

-----------------------------------------------------------------------------
(* bfs.py: bfs.  fila holds (no, caminho), first in first out. *)

\* the for loop over vizinhos.keys(): r = [fila, visitados, achado],
\* achado the path returned from inside the loop, or <<>>
RECURSIVE BFS_Expandir(_, _, _, _, _)
BFS_Expandir(vizinhos, i, caminho_atual, destino, r) ==
    IF i > Len(vizinhos) \/ r.achado # <<>> THEN r
    ELSE
    LET vizinho == vizinhos[i].destino
        novo_caminho == Append(caminho_atual, vizinho)
    IN  BFS_Expandir(vizinhos, i + 1, caminho_atual, destino,
            IF vizinho \in r.visitados THEN r
            ELSE IF vizinho = destino
            THEN [r EXCEPT !.visitados = @ \cup {vizinho}, !.achado = novo_caminho]
            ELSE [r EXCEPT !.visitados = @ \cup {vizinho},
                           !.fila = Append(@, <<vizinho, novo_caminho>>)])

RECURSIVE BFS_Loop(_, _, _, _, _, _)
BFS_Loop(g, destino, metrica, fila, visitados, nos_expandidos) ==
    IF fila = <<>> THEN Falha(nos_expandidos, metrica)
    ELSE
    LET no_atual == Head(fila)[1]
        caminho_atual == Head(fila)[2]
        r == BFS_Expandir(obter_vizinhos(g, no_atual), 1, caminho_atual, destino,
                          [fila |-> Tail(fila), visitados |-> visitados, achado |-> <<>>])
    IN  IF r.achado # <<>>
        THEN Resultado(r.achado, calcular_custo_caminho(g, r.achado, metrica),
                       nos_expandidos + 1, TRUE, metrica)
        ELSE BFS_Loop(g, destino, metrica, r.fila, r.visitados, nos_expandidos + 1)

\* a search that takes the cheapest path instead of the first one found by levels
BFS_PorCusto(g, origem, destino, metrica) == custo_uniforme(g, origem, destino, metrica)

bfs(g, origem, destino, metrica) ==
    IF origem \notin IdsNos(g) THEN Falha(0, metrica)
    ELSE IF destino \notin IdsNos(g) THEN Falha(0, metrica)
    ELSE IF origem = destino THEN Resultado(<<origem>>, 0, 0, TRUE, metrica)
    ELSE BFS_Loop(g, destino, metrica, << <<origem, <<origem>>>> >>, {origem}, 0)

-----------------------------------------------------------------------------
(* dfs.py: dfs.  pilha holds (no, caminho, profundidade); its top is its last element. *)

\* for vizinho in reversed(vizinhos): push the unvisited ones
RECURSIVE DFS_Empilhar(_, _, _, _, _, _)
DFS_Empilhar(vizinhos, i, caminho_atual, profundidade, visitados, pilha) ==
    IF i < 1 THEN pilha
    ELSE
    LET vizinho == vizinhos[i].destino IN
    DFS_Empilhar(vizinhos, i - 1, caminho_atual, profundidade, visitados,
                 IF vizinho \notin visitados
                 THEN Append(pilha, <<vizinho, Append(caminho_atual, vizinho), profundidade + 1>>)
                 ELSE pilha)

RECURSIVE DFS_Loop(_, _, _, _, _, _, _)
DFS_Loop(g, destino, metrica, limite_profundidade, pilha, visitados, nos_expandidos) ==
    IF pilha = <<>> THEN Falha(nos_expandidos, metrica)
    ELSE
    LET topo == pilha[Len(pilha)]
        no_atual == topo[1]
        caminho_atual == topo[2]
        profundidade == topo[3]
        resto == SubSeq(pilha, 1, Len(pilha) - 1)
    IN  IF limite_profundidade # NoneNum /\ profundidade > limite_profundidade
        THEN DFS_Loop(g, destino, metrica, limite_profundidade, resto, visitados, nos_expandidos)
        ELSE IF no_atual \in visitados
        THEN DFS_Loop(g, destino, metrica, limite_profundidade, resto, visitados, nos_expandidos)
        ELSE IF no_atual = destino
        THEN Resultado(caminho_atual, calcular_custo_caminho(g, caminho_atual, metrica),
                       nos_expandidos + 1, TRUE, metrica)
        ELSE DFS_Loop(g, destino, metrica, limite_profundidade,
                      DFS_Empilhar(obter_vizinhos(g, no_atual),
                                   Len(obter_vizinhos(g, no_atual)), caminho_atual,
                                   profundidade, visitados \cup {no_atual}, resto),
                      visitados \cup {no_atual}, nos_expandidos + 1)

\* dfs without the origem == destino shortcut
DFS_SemAtalho(g, origem, destino, metrica, limite_profundidade) ==
    IF origem \notin IdsNos(g) THEN Falha(0, metrica)
    ELSE IF destino \notin IdsNos(g) THEN Falha(0, metrica)
    ELSE DFS_Loop(g, destino, metrica, limite_profundidade,
                  << <<origem, <<origem>>, 0>> >>, {}, 0)

dfs(g, origem, destino, metrica, limite_profundidade) ==
    IF origem \notin IdsNos(g) THEN Falha(0, metrica)
    ELSE IF destino \notin IdsNos(g) THEN Falha(0, metrica)
    ELSE IF origem = destino THEN Resultado(<<origem>>, 0, 0, TRUE, metrica)
    ELSE DFS_Loop(g, destino, metrica, limite_profundidade,
                  << <<origem, <<origem>>, 0>> >>, {}, 0)

\* dfs.py: dfs_iterative_deepening.  The for loop over the limits, each one
\* a call of dfs; nos_expandidos_total adds up the nodes the calls expanded.
RECURSIVE IDDFS_Loop(_, _, _, _, _, _, _)
IDDFS_Loop(g, origem, destino, metrica, limite, max_profundidade, nos_expandidos_total) ==
    IF limite > max_profundidade THEN Falha(nos_expandidos_total, metrica)
    ELSE IF dfs(g, origem, destino, metrica, limite).sucesso
    THEN [dfs(g, origem, destino, metrica, limite)
            EXCEPT !.nos_expandidos = nos_expandidos_total + @]
    ELSE IDDFS_Loop(g, origem, destino, metrica, limite + 1, max_profundidade,
                    nos_expandidos_total
                        + dfs(g, origem, destino, metrica, limite).nos_expandidos)

dfs_iterative_deepening(g, origem, destino, metrica, max_profundidade) ==
    IF origem \notin IdsNos(g) \/ destino \notin IdsNos(g) THEN Falha(0, metrica)
    ELSE IDDFS_Loop(g, origem, destino, metrica, 0, max_profundidade, 0)

-----------------------------------------------------------------------------
(***************************************************************************)
(* pedido.py: Pedido.  A datetime is a number of seconds; durations the    *)
(* code keeps in minutes (tempo_espera_maximo) stay in minutes.  The       *)
(* fields kept are the ones the lifecycle and the planner read.            *)
(***************************************************************************)

NORMAL == 1
PREMIUM == 2
CRITICO == 3

PENDENTE == "pendente"
ATRIBUIDO == "atribuido"
EM_CURSO == "em_curso"
CONCLUIDO == "concluido"
CANCELADO == "cancelado"
REJEITADO == "rejeitado"
EXPIRADO == "expirado"

INDIFERENTE == "indiferente"
PREFERENCIA_ELETRICO == "preferencia_eletrico"
APENAS_ELETRICO == "apenas_eletrico"

Pedido(id, origem, destino, num_passageiros, timestamp, prioridade, preferencia_ambiental, tempo_espera_maximo) ==
    [id |-> id, origem |-> origem, destino |-> destino,
     num_passageiros |-> num_passageiros, timestamp |-> timestamp,
     prioridade |-> prioridade, preferencia_ambiental |-> preferencia_ambiental,
     tempo_espera_maximo |-> tempo_espera_maximo, estado |-> PENDENTE,
     escalado_para_critico |-> FALSE, veiculo_atribuido |-> NoneId]

\* (tempo_decorrido / tempo_espera_maximo) * 100 >= percentagem at the time
\* t_atual (the parameter tempo_atual), with
\* tempo_decorrido = (tempo_atual - timestamp).total_seconds() / 60.0
PercentagemPeloMenos(p, t_atual, percentagem) ==
    (t_atual - p.timestamp) * 100 >= percentagem * p.tempo_espera_maximo * 60

\* verificar_e_escalar_prioridade without the escalado_para_critico test
VerificarSemFlag(p, t_atual) ==
    IF p.estado # PENDENTE THEN [pedido |-> p, retorno |-> "OK"]
    ELSE IF PercentagemPeloMenos(p, t_atual, 100)
    THEN [pedido |-> p, retorno |-> "EXPIRAR"]
    ELSE IF PercentagemPeloMenos(p, t_atual, 70)
    THEN [pedido |-> [p EXCEPT !.prioridade = CRITICO, !.escalado_para_critico = TRUE],
          retorno |-> "ESCALADO_CRITICO"]
    ELSE [pedido |-> p, retorno |-> "OK"]

\* the request after the call, and the string the call returns
verificar_e_escalar_prioridade(p, t_atual) ==
    IF p.estado # PENDENTE THEN [pedido |-> p, retorno |-> "OK"]
    ELSE IF PercentagemPeloMenos(p, t_atual, 100)
    THEN [pedido |-> p, retorno |-> "EXPIRAR"]
    ELSE IF PercentagemPeloMenos(p, t_atual, 70) /\ ~p.escalado_para_critico
    THEN [pedido |-> [p EXCEPT !.prioridade = CRITICO, !.escalado_para_critico = TRUE],
          retorno |-> "ESCALADO_CRITICO"]
    ELSE [pedido |-> p, retorno |-> "OK"]

atribuir_veiculo(p, veiculo_id) ==
    [p EXCEPT !.veiculo_atribuido = veiculo_id, !.estado = ATRIBUIDO]

\* the trip starts and the request is left as it was
SemInicioDeViagem(p) == p

iniciar_viagem_pedido(p) == [p EXCEPT !.estado = EM_CURSO]

concluir(p) == [p EXCEPT !.estado = CONCLUIDO]

cancelar(p) == [p EXCEPT !.estado = CANCELADO]

rejeitar(p) == [p EXCEPT !.estado = REJEITADO]

marcar_expirado(p) == [p EXCEPT !.estado = EXPIRADO]

\* verificar_e_recarregar_veiculos, on a critical battery: the request of the
\* aborted trip goes back to the pending pool
DevolverPedido(p) == [p EXCEPT !.estado = PENDENTE, !.veiculo_atribuido = NoneId]

PedidoParado == pedido = None /\ verificacao = None

GrafoParado == grafo = Grafo(FALSE) /\ carregado = None /\ resultado = None

-----------------------------------------------------------------------------
(***************************************************************************)
(* veiculo.py: Veiculo, the fields the station and the planner read.       *)
(***************************************************************************)

ELETRICO == "eletrico"
COMBUSTAO == "combustao"

DISPONIVEL == "disponivel"
EM_SERVICO == "em_servico"
A_CAMINHO == "a_caminho"
EM_RECARGA == "em_recarga"
EM_ABASTECIMENTO == "em_abastecimento"

Veiculo(id, tipo, autonomia_max, capacidade, custo_por_km, localizacao, autonomia_atual) ==
    [id |-> id, tipo |-> tipo, autonomia_max |-> autonomia_max,
     autonomia_atual |-> IF autonomia_atual # NoneNum THEN autonomia_atual
                         ELSE autonomia_max,
     capacidade |-> capacidade, custo_por_km |-> custo_por_km,
     localizacao |-> localizacao, estado |-> DISPONIVEL, passageiros_atuais |-> 0,
     pedido_atual |-> NoneId, destino_atual |-> NoneId]

iniciar_recarga(v) ==
    [v EXCEPT !.estado = IF v.tipo = ELETRICO THEN EM_RECARGA ELSE EM_ABASTECIMENTO]

\* percentagem is 1.0 in every call
finalizar_recarga(v) ==
    [v EXCEPT !.autonomia_atual = v.autonomia_max, !.estado = DISPONIVEL]

-----------------------------------------------------------------------------
(***************************************************************************)
(* estacao.py: Estacao.  The lists hold vehicle ids; the Veiculo objects   *)
(* are in the map vs.  A call works on m = [estacao, vs, finalizados]:     *)
(* finalizados lists, for every service the call finalized, the vehicle,   *)
(* and the station state and waiting queue found when its slot was freed.  *)
(* The statistics counters and the costs are left out.  percentagem_alvo   *)
(* is the default 1.0 and timestamp is always given, in minutes.           *)
(***************************************************************************)

RECARGA_ELETRICA == "recarga_eletrica"
BOMBAS_GASOL == "bombas_gasol"

OPERACIONAL == "operacional"
FORA_SERVICO == "fora_servico"
LOTADA == "lotada"

Estacao(id, no_grafo, tipo, capacidade, velocidade_recarga) ==
    [id |-> id, no_grafo |-> no_grafo, tipo |-> tipo, capacidade |-> capacidade,
     estado |-> OPERACIONAL, velocidade_recarga |-> velocidade_recarga,
     veiculos_em_atendimento |-> <<>>, fila_espera |-> <<>>]

\* a station that admits whenever it is OPERACIONAL, whatever its occupation
EstaOperacional(e) == e.estado = OPERACIONAL

esta_disponivel(e) ==
    IF e.estado # OPERACIONAL THEN FALSE
    ELSE Len(e.veiculos_em_atendimento) < e.capacidade

esta_lotada(e) == Len(e.veiculos_em_atendimento) >= e.capacidade

\* the type test of pode_atender
TipoCompativel(e, v) ==
    IF v.tipo = ELETRICO THEN e.tipo = RECARGA_ELETRICA
    ELSE IF v.tipo = COMBUSTAO THEN e.tipo = BOMBAS_GASOL
    ELSE FALSE

pode_atender(e, v) == IF ~esta_disponivel(e) THEN FALSE ELSE TipoCompativel(e, v)

\* in minutes; the model's ranges are multiples of the recharge speed
calcular_tempo_recarga(e, v) ==
    LET autonomia_necessaria == v.autonomia_max - v.autonomia_atual
        velocidade == IF v.tipo = COMBUSTAO /\ e.tipo # BOMBAS_GASOL
                      THEN 100 ELSE e.velocidade_recarga
    IN  IF autonomia_necessaria <= 0 THEN 0 ELSE autonomia_necessaria \div velocidade

iniciar_atendimento(m, veiculo, timestamp) ==
    IF ~pode_atender(m.estacao, m.vs[veiculo])
    THEN IF veiculo \notin Range(m.estacao.fila_espera)
         THEN [m EXCEPT !.estacao.fila_espera = Append(@, veiculo)]
         ELSE m
    ELSE
    LET atendimento ==
            [veiculo |-> veiculo, inicio |-> timestamp,
             fim_estimado |-> timestamp + calcular_tempo_recarga(m.estacao, m.vs[veiculo])]
        e1 == [m.estacao EXCEPT !.veiculos_em_atendimento = Append(@, atendimento)]
    IN  [m EXCEPT !.estacao = IF esta_lotada(e1) THEN [e1 EXCEPT !.estado = LOTADA] ELSE e1,
                  !.vs[veiculo] = iniciar_recarga(@)]

\* if self.estado == EstadoEstacao.LOTADA: self.estado = EstadoEstacao.OPERACIONAL
EstadoAoLibertar(e) == IF e.estado = LOTADA THEN OPERACIONAL ELSE e.estado

finalizar_atendimento(m, veiculo, timestamp) ==
    LET em == m.estacao.veiculos_em_atendimento
        achados == {i \in 1..Len(em) : em[i].veiculo = veiculo}
    IN  IF achados = {} THEN m
        ELSE
        LET i == CHOOSE k \in achados : \A l \in achados : k <= l
            e1 == [m.estacao EXCEPT !.veiculos_em_atendimento =
                        SubSeq(em, 1, i - 1) \o SubSeq(em, i + 1, Len(em))]
            e2 == [e1 EXCEPT !.estado = EstadoAoLibertar(e1)]
            m2 == [estacao |-> e2,
                   vs |-> [m.vs EXCEPT ![veiculo] = finalizar_recarga(@)],
                   finalizados |-> Append(m.finalizados,
                                          [veiculo |-> veiculo, estado |-> e1.estado,
                                           fila_espera |-> e1.fila_espera])]
        IN  IF e2.fila_espera # <<>> /\ esta_disponivel(e2)
            THEN iniciar_atendimento([m2 EXCEPT !.estacao.fila_espera = Tail(@)],
                                     Head(e2.fila_espera), timestamp)
            ELSE m2

\* the loop of atualizar_estado over concluidos, computed before the loop
RECURSIVE FinalizarConcluidos(_, _, _, _)
FinalizarConcluidos(m, concluidos, i, timestamp) ==
    IF i > Len(concluidos) THEN m
    ELSE FinalizarConcluidos(finalizar_atendimento(m, concluidos[i].veiculo, timestamp),
                             concluidos, i + 1, timestamp)

atualizar_estado(m, timestamp) ==
    FinalizarConcluidos(m,
        SelectSeq(m.estacao.veiculos_em_atendimento,
                  LAMBDA atend : timestamp >= atend.fim_estimado),
        1, timestamp)

simular_falha(e) == [e EXCEPT !.estado = FORA_SERVICO]

reparar(e) == [e EXCEPT !.estado = OPERACIONAL]

EstacaoParada == estacao = None /\ veiculos = None /\ agora = 0 /\ evento = None

SimParado == sim = None /\ relogio = None /\ ultimo = None /\ gemeo = None /\ memoria = None

-----------------------------------------------------------------------------
(***************************************************************************)
(* Inputs of the search specification.  The city has four nodes on the     *)
(* corners of a 6 km x 8 km rectangle; every candidate street is absent,   *)
(* or added with the distance computed from the coordinates, or added with *)
(* an explicit (shorter) distance, free or congested.  The graph is built  *)
(* by the calls Grafo(), adicionar_no, adicionar_aresta, atualizar_transito*)
(* (as carregar_json and the tests build it).                              *)
(***************************************************************************)

\* the largest congestion factor a street gets (1 = free)
MaxFator == 2

\* half the explicit distance of a short street, in km
MeiaDistCurta == 1

NosModelo ==
    << No("A", ZONA_PICKUP, <<0, 0>>, 0, "centro"),
       No("B", ESTACAO_RECARGA, <<6, 0>>, 1, "centro"),
       No("C", POSTO_ABASTECIMENTO, <<0, 8>>, 1, "periferia"),
       No("D", ZONA_PICKUP, <<6, 8>>, 0, "periferia") >>

ParesCandidatos ==
    << <<"A", "B">>, <<"A", "C">>, <<"B", "C">>, <<"B", "D">>, <<"C", "D">> >>

\* what adicionar_aresta / atualizar_transito is called with for one street
OpcoesAresta ==
    { [distancia |-> NoneNum, fator |-> 1],
      [distancia |-> 2 * MeiaDistCurta, fator |-> 1],
      [distancia |-> 2 * MeiaDistCurta, fator |-> MaxFator] }

RECURSIVE ComNos(_, _, _)
ComNos(g, lista, i) ==
    IF i > Len(lista) THEN g
    ELSE ComNos(adicionar_no(g, lista[i].id, lista[i].tipo, lista[i].coords,
                             lista[i].capacidade_recarga, lista[i].zona),
                lista, i + 1)

RECURSIVE ComArestas(_, _, _)
ComArestas(g, opcoes, i) ==
    IF i > Len(ParesCandidatos) THEN g
    ELSE IF opcoes[i] = None THEN ComArestas(g, opcoes, i + 1)
    ELSE
    LET o == ParesCandidatos[i][1]
        d == ParesCandidatos[i][2]
        g1 == adicionar_aresta(g, o, d, opcoes[i].distancia, NoneNum, 1, ~g.direcional)
        g2 == IF opcoes[i].fator = 1 THEN g1
              ELSE atualizar_transito(atualizar_transito(g1, o, d, opcoes[i].fator),
                                      d, o, opcoes[i].fator)
    IN  ComArestas(g2, opcoes, i + 1)

ConstruirGrafo(direcional, opcoes) ==
    ComArestas(ComNos(Grafo(direcional), NosModelo, 1), opcoes, 1)

\* the (origem, destino) pairs the searches are called with; "Z" is in no graph
ParesConsulta ==
    { <<"A", "D">>, <<"D", "A">>, <<"B", "C">>, <<"A", "A">>,
      <<"Z", "A">>, <<"A", "Z">>, <<"Z", "Z">> }

Metricas == {"distancia", "tempo"}

\* the values a caller-supplied heuristic gives to the nodes B and C (0 elsewhere)
ValoresH == {0, 8}

HeuristicasModelo ==
    {None} \cup { [n \in {"A", "B", "C", "D", "Z"} |->
                        IF n = "B" THEN b ELSE IF n = "C" THEN c ELSE 0] :
                  b \in ValoresH, c \in ValoresH }

\* hill_climbing's max_iteracoes: the default is 1000
IteracoesModelo == {1000}

Chamada(algoritmo, origem, destino, metrica, heuristica, r) ==
    [algoritmo |-> algoritmo, origem |-> origem, destino |-> destino,
     metrica |-> metrica, heuristica |-> heuristica, r |-> r]

\* A search reads the graph and changes nothing, so a behaviour is one graph
\* and one call: the call is taken while no result is recorded yet.
InitProcura ==
    /\ \E direcional \in BOOLEAN,
          opcoes \in [1..Len(ParesCandidatos) -> OpcoesAresta \cup {None}] :
            grafo = ConstruirGrafo(direcional, opcoes)
    /\ carregado = None
    /\ resultado = None
    /\ PedidoParado
    /\ EstacaoParada
    /\ SimParado

CustoUniforme ==
    /\ resultado = None
    /\ \E par \in ParesConsulta, metrica \in Metricas :
        resultado' = Chamada("custo_uniforme", par[1], par[2], metrica, None,
                             custo_uniforme(grafo, par[1], par[2], metrica))
    /\ UNCHANGED <<grafo, carregado, fora_do_grafo>>

AStar ==
    /\ resultado = None
    /\ \E par \in ParesConsulta, metrica \in Metricas, heuristica \in HeuristicasModelo :
        resultado' = Chamada("astar", par[1], par[2], metrica, heuristica,
                             astar(grafo, par[1], par[2], metrica, heuristica))
    /\ UNCHANGED <<grafo, carregado, fora_do_grafo>>

Greedy ==
    /\ resultado = None
    /\ \E par \in ParesConsulta, metrica \in Metricas, heuristica \in HeuristicasModelo :
        resultado' = Chamada("greedy", par[1], par[2], metrica, heuristica,
                             greedy(grafo, par[1], par[2], metrica, heuristica))
    /\ UNCHANGED <<grafo, carregado, fora_do_grafo>>

HillClimbing ==
    /\ resultado = None
    /\ \E par \in ParesConsulta, metrica \in Metricas, heuristica \in HeuristicasModelo,
          max_iteracoes \in IteracoesModelo :
        resultado' = Chamada("hill_climbing", par[1], par[2], metrica, heuristica,
                             hill_climbing(grafo, par[1], par[2], metrica, heuristica,
                                           max_iteracoes))
    /\ UNCHANGED <<grafo, carregado, fora_do_grafo>>

Bfs ==
    /\ resultado = None
    /\ \E par \in ParesConsulta, metrica \in Metricas :
        resultado' = Chamada("bfs", par[1], par[2], metrica, None,
                             bfs(grafo, par[1], par[2], metrica))
    /\ UNCHANGED <<grafo, carregado, fora_do_grafo>>

Dfs ==
    /\ resultado = None
    /\ \E par \in ParesConsulta, metrica \in Metricas :
        resultado' = Chamada("dfs", par[1], par[2], metrica, None,
                             dfs(grafo, par[1], par[2], metrica, NoneNum))
    /\ UNCHANGED <<grafo, carregado, fora_do_grafo>>

NextProcura == CustoUniforme \/ AStar \/ Greedy \/ HillClimbing \/ Bfs \/ Dfs

SpecProcura == InitProcura /\ [][NextProcura]_vars

-----------------------------------------------------------------------------
(***************************************************************************)
(* Reference values the search results are compared with, computed by      *)
(* relaxing every edge |nos| times (Bellman-Ford), independently of the    *)
(* strategies.  Under the metric "arestas" every edge costs 1.             *)
(***************************************************************************)
MinDe(S) == CHOOSE x \in S : \A y \in S : x <= y

CustoRef(aresta, metrica) ==
    IF metrica = "arestas" THEN 1 ELSE CustoAresta(aresta, metrica)

RECURSIVE Relaxar(_, _, _, _)
Relaxar(g, metrica, dist, k) ==
    IF k = 0 THEN dist
    ELSE Relaxar(g, metrica,
                 [n \in IdsNos(g) |->
                    MinDe({dist[n]} \cup
                          { dist[a.origem] + CustoRef(a, metrica) :
                            a \in { b \in Range(g.arestas) :
                                    b.destino = n /\ dist[b.origem] < Inf } })],
                 k - 1)

\* the minimum cost over all origem-to-destino paths, Inf when there is none
CustoMinimo(g, origem, destino, metrica) ==
    Relaxar(g, metrica, [n \in IdsNos(g) |-> IF n = origem THEN 0 ELSE Inf],
            Cardinality(IdsNos(g)))[destino]

\* h(n) never exceeds the true remaining cost from n to destino
Admissivel(g, heuristica, destino, metrica) ==
    \A n \in IdsNos(g) :
        Heuristica(heuristica, g, n, destino) <= CustoMinimo(g, n, destino, metrica)

\* the recorded call ran the given strategy on nodes of the graph
Chamou(algoritmo) ==
    /\ resultado # None
    /\ resultado.algoritmo = algoritmo
    /\ resultado.origem \in IdsNos(grafo)
    /\ resultado.destino \in IdsNos(grafo)

\* the path of the recorded result leads from origem to destino along edges
CaminhoLiga ==
    /\ resultado.r.caminho # <<>>
    /\ Head(resultado.r.caminho) = resultado.origem
    /\ resultado.r.caminho[Len(resultado.r.caminho)] = resultado.destino
    /\ validar_caminho(grafo, resultado.r.caminho)

(***************************************************************************)
(* C1.  For every graph with non-negative weights, every origin and        *)
(* destination present in the graph and either metric, custo_uniforme      *)
(* succeeds exactly when a path exists, and the cost it returns is the     *)
(* minimum cost over all origin-to-destination paths (and is the cost of   *)
(* the path it returns).                                                   *)
(***************************************************************************)
C1_CustoUniformeOtimo ==
    Chamou("custo_uniforme") =>
        LET minimo == CustoMinimo(grafo, resultado.origem, resultado.destino,
                                  resultado.metrica)
        IN  /\ resultado.r.sucesso <=> minimo < Inf
            /\ resultado.r.sucesso =>
                  /\ resultado.r.custo_total = minimo
                  /\ CaminhoLiga
                  /\ calcular_custo_caminho(grafo, resultado.r.caminho,
                                            resultado.metrica) = minimo

\* custo_uniforme took a detour of three or more nodes although a direct,
\* costlier street joins origin and destination
C1_Witness ==
    /\ Chamou("custo_uniforme")
    /\ resultado.r.sucesso
    /\ Len(resultado.r.caminho) >= 3
    /\ TemAresta(grafo.arestas, resultado.origem, resultado.destino)

(***************************************************************************)
(* C2.  For every graph with non-negative weights and every heuristic that *)
(* is admissible for the chosen metric, astar returns a path whose total   *)
(* cost is the minimum cost between origin and destination.                *)
(***************************************************************************)
C2_AStarOtimo ==
    ( /\ Chamou("astar")
      /\ Admissivel(grafo, resultado.heuristica, resultado.destino, resultado.metrica)
      /\ CustoMinimo(grafo, resultado.origem, resultado.destino, resultado.metrica) < Inf )
    => /\ resultado.r.sucesso
       /\ resultado.r.custo_total =
            CustoMinimo(grafo, resultado.origem, resultado.destino, resultado.metrica)

(***************************************************************************)
(* C3.  For every graph and every origin and destination joined by some    *)
(* path, bfs returns a path from origin to destination whose number of     *)
(* edges is the minimum over all such paths, whatever the weights.         *)
(***************************************************************************)
C3_BfsMenosArestas ==
    ( /\ Chamou("bfs")
      /\ CustoMinimo(grafo, resultado.origem, resultado.destino, "arestas") < Inf )
    => /\ resultado.r.sucesso
       /\ CaminhoLiga
       /\ Len(resultado.r.caminho) - 1 =
            CustoMinimo(grafo, resultado.origem, resultado.destino, "arestas")

\* bfs returned the direct street although a longer path is cheaper
C3_Witness ==
    /\ Chamou("bfs")
    /\ resultado.r.sucesso
    /\ Len(resultado.r.caminho) = 2
    /\ CustoMinimo(grafo, resultado.origem, resultado.destino, resultado.metrica)
          < resultado.r.custo_total

(***************************************************************************)
(* C4.  For each of the six strategies: if origin or destination is absent *)
(* from the graph the result is a failure with an empty path and zero      *)
(* nodes expanded; otherwise, if origin equals destination, the result is  *)
(* a success with path [origin], total cost 0 and zero nodes expanded.     *)
(***************************************************************************)
C4_ValidacaoAntesDaProcura ==
    resultado # None =>
        IF resultado.origem \notin IdsNos(grafo) \/ resultado.destino \notin IdsNos(grafo)
        THEN /\ ~resultado.r.sucesso
             /\ resultado.r.caminho = <<>>
             /\ resultado.r.nos_expandidos = 0
        ELSE resultado.origem = resultado.destino =>
             /\ resultado.r.sucesso
             /\ resultado.r.caminho = <<resultado.origem>>
             /\ resultado.r.custo_total = 0
             /\ resultado.r.nos_expandidos = 0

\* dfs was called with origin equal to destination, both in the graph
C4_Witness ==
    /\ Chamou("dfs")
    /\ resultado.origem = resultado.destino
    /\ resultado.r.sucesso

-----------------------------------------------------------------------------
(***************************************************************************)
(* The graph specification: a graph is built call by call from Grafo(),    *)
(* congestion is updated, and the graph is saved and loaded back.  The     *)
(* round trip is taken once, on the graph built so far.                    *)
(***************************************************************************)

\* the most edge records the graph holds
MaxArestas == 4

\* an explicit tempo_base, in minutes
TempoExplicito == 5

NosGrafo == SubSeq(NosModelo, 1, 3)

\* the (origem, destino) arguments of adicionar_aresta and atualizar_transito
ParesGrafo == { <<"A", "B">>, <<"B", "A">>, <<"B", "C">>, <<"C", "B">> }

\* the distancia and tempo_base arguments of adicionar_aresta
OpcoesPeso ==
    { [distancia |-> NoneNum, tempo_base |-> NoneNum],
      [distancia |-> 2 * MeiaDistCurta, tempo_base |-> TempoExplicito] }

InitGrafo ==
    /\ \E direcional \in BOOLEAN : grafo = Grafo(direcional)
    /\ carregado = None
    /\ resultado = None
    /\ PedidoParado
    /\ EstacaoParada
    /\ SimParado

AdicionarNo ==
    /\ carregado = None
    /\ \E i \in 1..Len(NosGrafo) :
        /\ i <= Len(grafo.nos) + 1
        /\ grafo' = adicionar_no(grafo, NosGrafo[i].id, NosGrafo[i].tipo,
                                 NosGrafo[i].coords, NosGrafo[i].capacidade_recarga,
                                 NosGrafo[i].zona)
    /\ UNCHANGED <<carregado, resultado, fora_do_grafo>>

AdicionarAresta ==
    /\ carregado = None
    /\ \E par \in ParesGrafo \ {<<"C", "B">>}, peso \in OpcoesPeso,
          fator_transito \in 1..MaxFator, bidirecional \in BOOLEAN :
        /\ grafo' = adicionar_aresta(grafo, par[1], par[2], peso.distancia,
                                     peso.tempo_base, fator_transito, bidirecional)
        /\ Len(grafo'.arestas) <= MaxArestas
    /\ UNCHANGED <<carregado, resultado, fora_do_grafo>>

AtualizarTransito ==
    /\ carregado = None
    /\ \E par \in ParesGrafo, fator \in 1..MaxFator :
        grafo' = atualizar_transito(grafo, par[1], par[2], fator)
    /\ UNCHANGED <<carregado, resultado, fora_do_grafo>>

SalvarCarregar ==
    /\ carregado = None
    /\ carregado' = carregar_json(salvar_json(grafo))
    /\ UNCHANGED <<grafo, resultado, fora_do_grafo>>

NextGrafo == AdicionarNo \/ AdicionarAresta \/ AtualizarTransito \/ SalvarCarregar

SpecGrafo == InitGrafo /\ [][NextGrafo]_vars

(***************************************************************************)
(* C5.  For every graph reachable by add-node, add-edge and                *)
(* congestion-update operations, saving it with salvar_json and loading it *)
(* back with carregar_json yields a graph with the same node set, the same *)
(* set of directed edge records and, for every edge, the same distance,    *)
(* base travel time and congestion factor.                                 *)
(***************************************************************************)
C5_IdaEVolta ==
    carregado # None =>
        /\ IdsNos(carregado) = IdsNos(grafo)
        /\ Range(carregado.arestas) = Range(grafo.arestas)

(***************************************************************************)
(* C6.  In an undirected graph, after any sequence of adicionar_aresta and *)
(* atualizar_transito calls, for every stored edge (u,v) the reverse edge  *)
(* (v,u) is stored too, with the same distance, base travel time and       *)
(* congestion factor.                                                      *)
(***************************************************************************)
C6_ArestasEmSincronia ==
    ~grafo.direcional =>
        \A a \in Range(grafo.arestas) :
            /\ TemAresta(grafo.arestas, a.destino, a.origem)
            /\ LET rev == ObterAresta(grafo.arestas, a.destino, a.origem)
               IN  /\ rev.distancia = a.distancia
                   /\ rev.tempo_base = a.tempo_base
                   /\ rev.fator_transito = a.fator_transito

-----------------------------------------------------------------------------
(***************************************************************************)
(* The request specification: one Pedido, the calls of its lifecycle in    *)
(* any order, and verificar_e_escalar_prioridade called at times that      *)
(* never decrease.                                                         *)
(***************************************************************************)

\* the times of the calls are 0, 6, ..., 6 * MaxInstantes seconds
MaxInstantes == 12

Instantes == {6 * k : k \in 0..MaxInstantes}

InitPedido ==
    /\ GrafoParado
    /\ EstacaoParada
    /\ SimParado
    /\ \E timestamp \in {0, 12}, prioridade \in {NORMAL, PREMIUM} :
        pedido = Pedido("P0001", "A", "B", 1, timestamp, prioridade, INDIFERENTE, 1)
    /\ verificacao = [tempo_atual |-> 0, retorno |-> NoneId, pendente |-> TRUE,
                      escalacoes |-> 0]

VerificarEEscalarPrioridade ==
    /\ \E t_atual \in Instantes :
        /\ t_atual >= verificacao.tempo_atual
        /\ LET r == verificar_e_escalar_prioridade(pedido, t_atual)
           IN  /\ pedido' = r.pedido
               /\ verificacao' =
                    [tempo_atual |-> t_atual, retorno |-> r.retorno,
                     pendente |-> pedido.estado = PENDENTE,
                     escalacoes |-> verificacao.escalacoes +
                                    (IF r.retorno = "ESCALADO_CRITICO" THEN 1 ELSE 0)]
    /\ UNCHANGED fora_do_pedido

AtribuirVeiculo ==
    /\ pedido' = atribuir_veiculo(pedido, "V1")
    /\ UNCHANGED <<verificacao, fora_do_pedido>>

IniciarViagem ==
    /\ pedido' = iniciar_viagem_pedido(pedido)
    /\ UNCHANGED <<verificacao, fora_do_pedido>>

Concluir ==
    /\ pedido' = concluir(pedido)
    /\ UNCHANGED <<verificacao, fora_do_pedido>>

Cancelar ==
    /\ pedido' = cancelar(pedido)
    /\ UNCHANGED <<verificacao, fora_do_pedido>>

Rejeitar ==
    /\ pedido' = rejeitar(pedido)
    /\ UNCHANGED <<verificacao, fora_do_pedido>>

MarcarExpirado ==
    /\ pedido' = marcar_expirado(pedido)
    /\ UNCHANGED <<verificacao, fora_do_pedido>>

Devolver ==
    /\ pedido' = DevolverPedido(pedido)
    /\ UNCHANGED <<verificacao, fora_do_pedido>>

NextPedido ==
    \/ VerificarEEscalarPrioridade
    \/ AtribuirVeiculo
    \/ IniciarViagem
    \/ Concluir
    \/ Cancelar
    \/ Rejeitar
    \/ MarcarExpirado
    \/ Devolver

SpecPedido == InitPedido /\ [][NextPedido]_vars

-----------------------------------------------------------------------------
(***************************************************************************)
(* The station specification: one Estacao, three vehicles, a clock in      *)
(* minutes, and the calls of the station in any order.  evento records the *)
(* last call: its name, its vehicle, and what it finalized.                *)
(***************************************************************************)

MaxCapacidade == 2
MaxAgora == 3

IdsFrota == {"V1", "V2", "V3"}

\* two electric vehicles, 2 and 1 minutes from a full charge at 10 km/min,
\* and one combustion vehicle
FrotaEstacao ==
    [id \in IdsFrota |->
        IF id = "V1" THEN Veiculo("V1", ELETRICO, 20, 4, 1, "B", 0)
        ELSE IF id = "V2" THEN Veiculo("V2", ELETRICO, 20, 4, 1, "B", 10)
        ELSE Veiculo("V3", COMBUSTAO, 20, 4, 1, "B", 0)]

Evento(op, veiculo, finalizados) ==
    [op |-> op, veiculo |-> veiculo, finalizados |-> finalizados]

Chamar(estacao_atual) == [estacao |-> estacao_atual, vs |-> veiculos, finalizados |-> <<>>]

InitEstacao ==
    /\ GrafoParado
    /\ PedidoParado
    /\ SimParado
    /\ \E tipo \in {RECARGA_ELETRICA, BOMBAS_GASOL}, capacidade \in 1..MaxCapacidade :
        estacao = Estacao("E1", "B", tipo, capacidade, 10)
    /\ veiculos = FrotaEstacao
    /\ agora = 0
    /\ evento = Evento("__init__", NoneId, <<>>)

Passar ==
    /\ agora < MaxAgora
    /\ agora' = agora + 1
    /\ UNCHANGED <<estacao, veiculos, evento, fora_da_estacao>>

IniciarAtendimento ==
    /\ \E veiculo \in IdsFrota :
        LET m == iniciar_atendimento(Chamar(estacao), veiculo, agora)
        IN  /\ estacao' = m.estacao
            /\ veiculos' = m.vs
            /\ evento' = Evento("iniciar_atendimento", veiculo, m.finalizados)
    /\ UNCHANGED <<agora, fora_da_estacao>>

FinalizarAtendimento ==
    /\ \E veiculo \in IdsFrota :
        LET m == finalizar_atendimento(Chamar(estacao), veiculo, agora)
        IN  /\ estacao' = m.estacao
            /\ veiculos' = m.vs
            /\ evento' = Evento("finalizar_atendimento", veiculo, m.finalizados)
    /\ UNCHANGED <<agora, fora_da_estacao>>

AtualizarEstado ==
    /\ LET m == atualizar_estado(Chamar(estacao), agora)
       IN  /\ estacao' = m.estacao
           /\ veiculos' = m.vs
           /\ evento' = Evento("atualizar_estado", NoneId, m.finalizados)
    /\ UNCHANGED <<agora, fora_da_estacao>>

SimularFalha ==
    /\ estacao' = simular_falha(estacao)
    /\ evento' = Evento("simular_falha", NoneId, <<>>)
    /\ UNCHANGED <<veiculos, agora, fora_da_estacao>>

Reparar ==
    /\ estacao' = reparar(estacao)
    /\ evento' = Evento("reparar", NoneId, <<>>)
    /\ UNCHANGED <<veiculos, agora, fora_da_estacao>>

NextEstacao ==
    \/ Passar
    \/ IniciarAtendimento
    \/ FinalizarAtendimento
    \/ AtualizarEstado
    \/ SimularFalha
    \/ Reparar

SpecEstacao == InitEstacao /\ [][NextEstacao]_vars

EmAtendimento(e) ==
    {e.veiculos_em_atendimento[i].veiculo : i \in 1..Len(e.veiculos_em_atendimento)}

(***************************************************************************)
(* C9.  After any sequence of iniciar_atendimento, finalizar_atendimento,  *)
(* atualizar_estado, simular_falha and reparar calls, the number of        *)
(* entries in veiculos_em_atendimento never exceeds the capacidade of the  *)
(* station.                                                                *)
(***************************************************************************)
C9_NuncaAcimaDaCapacidade ==
    Len(estacao.veiculos_em_atendimento) <= estacao.capacidade

\* a full station was repaired back to OPERACIONAL, and iniciar_atendimento
\* was then called for a vehicle of its type: the vehicle is in the queue
C9_Witness ==
    /\ evento.op = "iniciar_atendimento"
    /\ estacao.estado = OPERACIONAL
    /\ Len(estacao.veiculos_em_atendimento) = estacao.capacidade
    /\ TipoCompativel(estacao, veiculos[evento.veiculo])
    /\ estacao.fila_espera # <<>>
    /\ estacao.fila_espera[Len(estacao.fila_espera)] = evento.veiculo

(***************************************************************************)
(* C10.  Whenever a vehicle finishes service at a station (in              *)
(* finalizar_atendimento or in atualizar_estado) while the waiting queue   *)
(* is non-empty, its slot is released first and the vehicle that was at    *)
(* the head of the queue is in service by the end of that same call.       *)
(***************************************************************************)
C10_CabecaDaFilaAtendida ==
    \A i \in 1..Len(evento.finalizados) :
        LET f == evento.finalizados[i]
        IN  f.fila_espera # <<>> =>
               /\ Head(f.fila_espera) \in EmAtendimento(estacao)
               /\ Len(estacao.veiculos_em_atendimento) <= estacao.capacidade

-----------------------------------------------------------------------------
(***************************************************************************)
(* veiculo.py: the Veiculo methods the simulator calls, and the four       *)
(* vehicle classes it constructs.  simulacao.py imports TaxiEletrico,      *)
(* TaxiCombustao, taxiXLEletrica and taxiXLCombustao from veiculo.py,      *)
(* which does not define them; they are modelled from what the repository  *)
(* says of them: 4 and 6 seats (simulacao.py), ranges of 250, 400, 200 and *)
(* 350 km (test_recarga_abastecimento.py), and the attributes the          *)
(* simulator reads and writes.  The cost per km is a whole number.         *)
(*                                                                         *)
(* In the simulator a range is a whole number of tenths of a km, a request *)
(* timestamp and the two clocks are whole seconds, and the time spent on   *)
(* an edge is a whole number of hundredths of a minute.                    *)
(***************************************************************************)

AtributosDeFrota(tipo_str, categoria_veiculo) ==
    [tipo_str |-> tipo_str, categoria_veiculo |-> categoria_veiculo,
     rota_atual |-> <<>>, proximo_no_index |-> 0, progresso_aresta |-> 0,
     em_missao_recarga |-> FALSE, tempo_em_recarga |-> 0,
     autonomia_ao_iniciar_recarga |-> 0]

TaxiEletrico(id, localizacao) ==
    Veiculo(id, ELETRICO, 2500, 4, 1, localizacao, NoneNum) @@ AtributosDeFrota("eletrico", "TAXI")

TaxiCombustao(id, localizacao) ==
    Veiculo(id, COMBUSTAO, 4000, 4, 2, localizacao, NoneNum) @@ AtributosDeFrota("combustao", "TAXI")

taxiXLEletrica(id, localizacao) ==
    Veiculo(id, ELETRICO, 2000, 6, 2, localizacao, NoneNum) @@ AtributosDeFrota("eletrico", "TaxiXL")

taxiXLCombustao(id, localizacao) ==
    Veiculo(id, COMBUSTAO, 3500, 6, 3, localizacao, NoneNum) @@ AtributosDeFrota("combustao", "TaxiXL")

veiculo_esta_disponivel(v) == v.estado = DISPONIVEL

\* a vehicle that takes every request
AtendeSempre(v, num_passageiros, distancia_estimada) == TRUE

\* distancia_estimada in km; margem_seguranca = 1.2
pode_atender_pedido(v, num_passageiros, distancia_estimada) ==
    IF ~veiculo_esta_disponivel(v) THEN FALSE
    ELSE IF num_passageiros > v.capacidade THEN FALSE
    ELSE IF v.autonomia_atual < distancia_estimada * 12 THEN FALSE
    ELSE TRUE

iniciar_viagem(v, p, destino) ==
    [v EXCEPT !.estado = A_CAMINHO, !.pedido_atual = p.id, !.destino_atual = destino,
              !.passageiros_atuais = p.num_passageiros]

finalizar_viagem(v) ==
    [v EXCEPT !.estado = DISPONIVEL, !.pedido_atual = NoneId, !.destino_atual = NoneId,
              !.passageiros_atuais = 0]

\* distancia in km; the range is in tenths of a km
mover_para(v, nova_localizacao, distancia) ==
    [v EXCEPT !.autonomia_atual = @ - 10 * distancia, !.localizacao = nova_localizacao]

\* 45 minutes for a full charge, 5 for a full tank
TempoCompleto(v) == IF v.tipo = ELETRICO THEN 45 ELSE 5

definir_rota(v, lista_nos_do_astar) ==
    [v EXCEPT !.rota_atual = lista_nos_do_astar, !.proximo_no_index = 1,
              !.progresso_aresta = 0]

\* grafo.py: in minutes, NoneNum where there is no edge
obter_tempo(g, origem, destino) ==
    IF TemAresta(g.arestas, origem, destino)
    THEN tempo_atual(ObterAresta(g.arestas, origem, destino))
    ELSE NoneNum

(***************************************************************************)
(* atualizar_posicao.  rota_atual[proximo_no_index] of the code is the     *)
(* element proximo_no_index + 1 of the sequence.  progresso_aresta is kept *)
(* as the time already spent on the edge (the fraction of the code times   *)
(* tempo_total_aresta).  The result carries the IndexError the code raises *)
(* on a route of one node.                                                 *)
(***************************************************************************)
\* the loop without its limit of iterations
RECURSIVE AP_SemLimite(_, _, _, _)
AP_SemLimite(v, g, tempo_disponivel, iteracoes_seguranca) ==
    IF tempo_disponivel <= 0
    THEN [veiculo |-> v, chegou |-> FALSE, excecao |-> NoneId]
    ELSE IF v.proximo_no_index + 1 > Len(v.rota_atual)
    THEN [veiculo |-> v, chegou |-> FALSE, excecao |-> "IndexError"]
    ELSE
    LET t == obter_tempo(g, v.rota_atual[v.proximo_no_index],
                         v.rota_atual[v.proximo_no_index + 1])
        tempo_restante_na_aresta ==
            (IF t = NoneNum \/ t = 0 THEN 1 ELSE 100 * t) - v.progresso_aresta
    IN  IF tempo_disponivel >= tempo_restante_na_aresta
        THEN IF v.proximo_no_index + 1 >= Len(v.rota_atual)
             THEN [veiculo |-> [v EXCEPT !.localizacao = v.rota_atual[v.proximo_no_index + 1],
                                         !.proximo_no_index = @ + 1,
                                         !.progresso_aresta = 0,
                                         !.rota_atual = <<>>],
                   chegou |-> TRUE, excecao |-> NoneId]
             ELSE AP_SemLimite([v EXCEPT !.localizacao = v.rota_atual[v.proximo_no_index + 1],
                                         !.proximo_no_index = @ + 1,
                                         !.progresso_aresta = 0],
                               g, tempo_disponivel - tempo_restante_na_aresta,
                               iteracoes_seguranca + 1)
        ELSE [veiculo |-> [v EXCEPT !.progresso_aresta = @ + tempo_disponivel],
              chegou |-> FALSE, excecao |-> NoneId]

RECURSIVE AP_Loop(_, _, _, _)
AP_Loop(v, g, tempo_disponivel, iteracoes_seguranca) ==
    IF tempo_disponivel <= 0 \/ iteracoes_seguranca >= 10
    THEN [veiculo |-> v, chegou |-> FALSE, excecao |-> NoneId]
    ELSE IF v.proximo_no_index + 1 > Len(v.rota_atual)
    THEN [veiculo |-> v, chegou |-> FALSE, excecao |-> "IndexError"]
    ELSE
    LET no_origem == v.rota_atual[v.proximo_no_index]
        no_destino == v.rota_atual[v.proximo_no_index + 1]
        t == obter_tempo(g, no_origem, no_destino)
        tempo_total_aresta == IF t = NoneNum \/ t = 0 THEN 1 ELSE 100 * t
        tempo_restante_na_aresta == tempo_total_aresta - v.progresso_aresta
    IN  IF tempo_disponivel >= tempo_restante_na_aresta
        THEN LET v1 == [v EXCEPT !.localizacao = no_destino,
                                 !.proximo_no_index = @ + 1,
                                 !.progresso_aresta = 0]
             IN  IF v1.proximo_no_index >= Len(v1.rota_atual)
                 THEN [veiculo |-> [v1 EXCEPT !.rota_atual = <<>>], chegou |-> TRUE,
                       excecao |-> NoneId]
                 ELSE AP_Loop(v1, g, tempo_disponivel - tempo_restante_na_aresta,
                              iteracoes_seguranca + 1)
        ELSE [veiculo |-> [v EXCEPT !.progresso_aresta = @ + tempo_disponivel],
              chegou |-> FALSE, excecao |-> NoneId]

\* passo_tempo_min in hundredths of a minute
atualizar_posicao(v, g, passo_tempo_min) ==
    IF v.rota_atual = <<>>
    THEN [veiculo |-> v, chegou |-> FALSE, excecao |-> NoneId]
    ELSE AP_Loop(v, g, passo_tempo_min, 0)

\* a request that takes any vehicle
AceitaQualquer(p, v) == TRUE

\* pedido.py
aceita_veiculo(p, v) ==
    IF p.preferencia_ambiental = APENAS_ELETRICO THEN v.tipo_str = "eletrico" ELSE TRUE

-----------------------------------------------------------------------------
(***************************************************************************)
(* estado.py: Estado.  veiculos maps the ids to the Veiculo objects and    *)
(* ordem lists the ids in the order of the dict.  A request in a list is   *)
(* the Pedido object; a vehicle names its request, and a request its       *)
(* vehicle, by id.  The Grafo of the Estado is the Grafo of the Simulador  *)
(* (one shared object) and is passed as g.                                 *)
(***************************************************************************)

Estado(veiculos_da_frota, ordem, pedidos_pendentes, timestamp) ==
    [timestamp |-> timestamp, veiculos |-> veiculos_da_frota, ordem |-> ordem,
     pedidos_pendentes |-> pedidos_pendentes, pedidos_ativos |-> <<>>,
     pedidos_concluidos |-> <<>>]

TemPedido(lista, id) == \E i \in 1..Len(lista) : lista[i].id = id

ObterPedido(lista, id) == lista[CHOOSE i \in 1..Len(lista) : lista[i].id = id]

\* lista.remove(pedido)
RemoverPedido(lista, id) == SelectSeq(lista, LAMBDA p : p.id # id)

\* the ids of the available vehicles, in the order of the dict
obter_veiculos_disponiveis(e) ==
    SelectSeq(e.ordem, LAMBDA id : veiculo_esta_disponivel(e.veiculos[id]))

adicionar_pedido(e, p) ==
    [e EXCEPT !.pedidos_pendentes =
        IF p.prioridade = PREMIUM THEN <<p>> \o @ ELSE Append(@, p)]

atribuir_pedido(e, pedido_id, veiculo_id) ==
    IF ~TemPedido(e.pedidos_pendentes, pedido_id) THEN e
    ELSE IF ~veiculo_esta_disponivel(e.veiculos[veiculo_id]) THEN e
    ELSE
    LET p == ObterPedido(e.pedidos_pendentes, pedido_id)
    IN  [e EXCEPT !.pedidos_pendentes = RemoverPedido(@, pedido_id),
                  !.pedidos_ativos = Append(@, atribuir_veiculo(p, veiculo_id)),
                  !.veiculos[veiculo_id] = iniciar_viagem(@, p, p.destino)]

concluir_pedido(e, pedido_id) ==
    IF ~TemPedido(e.pedidos_ativos, pedido_id) THEN e
    ELSE
    LET p == concluir(ObterPedido(e.pedidos_ativos, pedido_id))
        e1 == [e EXCEPT !.pedidos_ativos = RemoverPedido(@, pedido_id),
                        !.pedidos_concluidos = Append(@, p)]
    IN  IF p.veiculo_atribuido = NoneId THEN e1
        ELSE [e1 EXCEPT !.veiculos[p.veiculo_atribuido] = finalizar_viagem(@)]

\* deepcopy of the vehicles and of the three lists: the same values
clonar(e) == e

\* the actions pairing the request p with the vehicles disp[j..]
RECURSIVE AcoesDoPedido(_, _, _, _, _)
AcoesDoPedido(e, g, p, disp, j) ==
    IF j > Len(disp) THEN <<>>
    ELSE
    LET veiculo == e.veiculos[disp[j]]
        tempo_decorrido == e.timestamp - p.timestamp
        dist_origem == distancia_euclidiana(g, veiculo.localizacao, p.origem)
        dist_viagem == distancia_euclidiana(g, p.origem, p.destino)
        dist_total == dist_origem + dist_viagem
        resto == AcoesDoPedido(e, g, p, disp, j + 1)
    IN  IF tempo_decorrido + 90 * dist_origem > 60 * p.tempo_espera_maximo THEN resto
        ELSE IF pode_atender_pedido(veiculo, p.num_passageiros, dist_total)
                /\ aceita_veiculo(p, veiculo)
        THEN <<[tipo |-> "atribuir", pedido |-> p.id, veiculo |-> veiculo.id,
                distancia_estimada |-> dist_total]>> \o resto
        ELSE resto

RECURSIVE AcoesDosPedidos(_, _, _, _)
AcoesDosPedidos(e, g, disp, i) ==
    IF i > Len(e.pedidos_pendentes) THEN <<>>
    ELSE
    LET p == e.pedidos_pendentes[i]
    IN  (IF e.timestamp - p.timestamp > 60 * p.tempo_espera_maximo THEN <<>>
         ELSE AcoesDoPedido(e, g, p, disp, 1))
        \o AcoesDosPedidos(e, g, disp, i + 1)

\* VELOCIDADE_MEDIA_KMH = 40: a km of pickup distance is 90 seconds
obter_acoes_possiveis(e, g) == AcoesDosPedidos(e, g, obter_veiculos_disponiveis(e), 1)

aplicar_acao(e, acao) ==
    IF acao.tipo = "atribuir" THEN atribuir_pedido(clonar(e), acao.pedido, acao.veiculo)
    ELSE clonar(e)

-----------------------------------------------------------------------------
(***************************************************************************)
(* simulacao.py: Simulador.  s is the Simulador object:                    *)
(*   grafo, tempo_atual, estado, metricas, algoritmo_ativo                 *)
(*   contador   Pedido._contador, the number of requests created           *)
(*   excecao    the exception that left correr_passo, NoneId if none       *)
(* The costs of the planner are kept times EscalaH, so that the urgency    *)
(* factor 1 + tempo_espera_min / 30 is the whole number                    *)
(* EscalaH + seconds waited.  float('inf') is InfH.                        *)
(***************************************************************************)

EscalaH == 30 * 60

InfH == 1024 * 1024 * 1024

SomaH(a, b) == IF a >= InfH \/ b >= InfH THEN InfH ELSE a + b

\* the ids of the nodes of one tipo, in the order of the dict
NosDoTipo(g, tipo) ==
    LET nos == SelectSeq(g.nos, LAMBDA no : no.tipo = tipo)
    IN  [i \in 1..Len(nos) |-> nos[i].id]

\* the first station of the list
PrimeiraEstacao(g, estacoes, de) == estacoes[1]

\* min(estacoes, key=distancia_euclidiana): the first of the nearest
MaisProxima(g, estacoes, de) ==
    estacoes[CHOOSE i \in 1..Len(estacoes) :
        /\ \A j \in 1..Len(estacoes) :
            distancia_euclidiana(g, de, estacoes[i]) <= distancia_euclidiana(g, de, estacoes[j])
        /\ \A j \in 1..(i - 1) :
            distancia_euclidiana(g, de, estacoes[j]) > distancia_euclidiana(g, de, estacoes[i])]

TipoEstacaoDe(veiculo) ==
    IF veiculo.tipo_str = "eletrico" THEN "estacao_recarga" ELSE "posto_abastecimento"

obter_distancia_estacao_mais_proxima(g, veiculo, localizacao_destino) ==
    LET estacoes == NosDoTipo(g, TipoEstacaoDe(veiculo))
    IN  IF estacoes = <<>> THEN 50
        ELSE distancia_euclidiana(g, localizacao_destino,
                                  MaisProxima(g, estacoes, localizacao_destino))

ZonaDe(g, no_id) == IF no_id \in IdsNos(g) THEN ObterNo(g, no_id).zona ELSE "periferia"

CarrosCentro(g, e) ==
    Cardinality({id \in Range(e.ordem) : ZonaDe(g, e.veiculos[id].localizacao) = "centro"})

\* custo_opcao times EscalaH; InfH where the vehicle is skipped
CustoOpcao(g, e, p, veiculo) ==
    LET dist_pickup == distancia_euclidiana(g, veiculo.localizacao, p.origem)
        dist_viagem == distancia_euclidiana(g, p.origem, p.destino)
        dist_total == dist_pickup + dist_viagem
        dist_estacao == obter_distancia_estacao_mais_proxima(g, veiculo, p.destino)
        fator_prioridade == IF p.prioridade = CRITICO THEN 10
                            ELSE IF p.prioridade = PREMIUM THEN 3 ELSE 1
        fator_urgencia == (EscalaH + (e.timestamp - p.timestamp)) * fator_prioridade
        custo_base == dist_total * veiculo.custo_por_km
        penalizacao_pref ==
            IF p.preferencia_ambiental = APENAS_ELETRICO /\ veiculo.tipo_str # "eletrico"
            THEN 1000
            ELSE IF p.preferencia_ambiental = PREFERENCIA_ELETRICO
                    /\ veiculo.tipo_str # "eletrico"
            THEN 100 ELSE 0
        saiu_do_centro == /\ veiculo.localizacao \in IdsNos(g)
                          /\ p.destino \in IdsNos(g)
                          /\ ZonaDe(g, veiculo.localizacao) = "centro"
                          /\ ZonaDe(g, p.destino) = "periferia"
        custo_zona == IF saiu_do_centro /\ 2 * CarrosCentro(g, e) < Len(e.ordem)
                      THEN 200 ELSE 0
    IN  IF veiculo.capacidade < p.num_passageiros THEN InfH
        ELSE IF veiculo.autonomia_atual < (dist_total + dist_estacao) * 12 THEN InfH
        ELSE custo_base * fator_urgencia + EscalaH * (penalizacao_pref + custo_zona)

RECURSIVE MinCusto(_, _, _, _, _, _)
MinCusto(g, e, p, disp, j, min_custo_para_este_pedido) ==
    IF j > Len(disp) THEN min_custo_para_este_pedido
    ELSE LET custo_opcao == CustoOpcao(g, e, p, e.veiculos[disp[j]])
         IN  MinCusto(g, e, p, disp, j + 1,
                      IF custo_opcao < min_custo_para_este_pedido THEN custo_opcao
                      ELSE min_custo_para_este_pedido)

RECURSIVE SomaCustos(_, _, _, _)
SomaCustos(g, e, disp, i) ==
    IF i > Len(e.pedidos_pendentes) THEN 0
    ELSE SomaH(MinCusto(g, e, e.pedidos_pendentes[i], disp, 1, InfH),
               SomaCustos(g, e, disp, i + 1))

heuristica_estado(g, e) ==
    LET veiculos_disponiveis == obter_veiculos_disponiveis(e)
    IN  IF veiculos_disponiveis = <<>> /\ e.pedidos_pendentes # <<>>
        THEN Len(e.pedidos_pendentes) * 10000 * EscalaH
        ELSE SomaCustos(g, e, veiculos_disponiveis, 1)

(***************************************************************************)
(* processar_atribuicoes_inteligente.  queue is the heap, a set of         *)
(* (f, g, counter, estado, caminho); counter is different in every entry,  *)
(* so heappop takes the entry least in (f, g, counter).                    *)
(***************************************************************************)
PA_Menor(a, b) ==
    \/ a.f < b.f
    \/ a.f = b.f /\ a.g < b.g
    \/ a.f = b.f /\ a.g = b.g /\ a.counter < b.counter

PA_Pop(queue) == CHOOSE a \in queue : \A b \in queue \ {a} : PA_Menor(a, b)

MAX_ITERACOES == 50

\* the heap after pushing the successors of the entry for acoes[i..]
RECURSIVE PA_Sucessores(_, _, _, _, _, _)
PA_Sucessores(g, queue, atual, acoes, i, counter) ==
    IF i > Len(acoes) THEN queue
    ELSE
    LET acao == acoes[i]
        novo_estado == aplicar_acao(atual.estado, acao)
        novo_g == atual.g + acao.distancia_estimada * EscalaH
        novo_h == heuristica_estado(g, novo_estado)
    IN  PA_Sucessores(g,
            queue \cup {[f |-> SomaH(novo_g, novo_h), g |-> novo_g, counter |-> counter + 1,
                         estado |-> novo_estado, caminho |-> Append(atual.caminho, acao)]},
            atual, acoes, i + 1, counter + 1)

RECURSIVE PA_Loop(_, _, _, _, _, _)
PA_Loop(g, queue, counter, iteracoes, melhor_caminho, melhor_f) ==
    IF queue = {} \/ iteracoes >= MAX_ITERACOES THEN melhor_caminho
    ELSE
    LET atual == PA_Pop(queue)
        resto == queue \ {atual}
        acoes_possiveis == obter_acoes_possiveis(atual.estado, g)
    IN  IF atual.estado.pedidos_pendentes = <<>> THEN atual.caminho
        ELSE IF acoes_possiveis = <<>>
        THEN IF atual.f < melhor_f
             THEN PA_Loop(g, resto, counter, iteracoes + 1, atual.caminho, atual.f)
             ELSE PA_Loop(g, resto, counter, iteracoes + 1, melhor_caminho, melhor_f)
        ELSE PA_Loop(g, PA_Sucessores(g, resto, atual, acoes_possiveis, 1, counter),
                     counter + Len(acoes_possiveis), iteracoes + 1,
                     melhor_caminho, melhor_f)

\* melhor_caminho, [] where the planner is not run
Planear(s) ==
    IF s.estado.pedidos_pendentes = <<>> \/ obter_veiculos_disponiveis(s.estado) = <<>>
    THEN <<>>
    ELSE LET estado_inicial == clonar(s.estado)
         IN  PA_Loop(s.grafo,
                     {[f |-> heuristica_estado(s.grafo, estado_inicial), g |-> 0,
                       counter |-> 0, estado |-> estado_inicial, caminho |-> <<>>]},
                     0, 0, <<>>, InfH)

\* _obter_funcao_algoritmo: astar, also for a name that is not in the table
Algoritmo(s, origem, destino) == astar(s.grafo, origem, destino, "tempo", None)

\* the vehicle id takes the request pedido_real: the lines after the search
PA_Atribuir(s, pedido_real, id) ==
    LET e1 == [s.estado EXCEPT !.veiculos[id].em_missao_recarga = FALSE,
                               !.veiculos[id].destino_atual = pedido_real.origem]
    IN  [s EXCEPT !.estado =
            [atribuir_pedido(e1, pedido_real.id, id) EXCEPT !.veiculos[id].estado = A_CAMINHO]]

\* definir_rota, if the route to the pickup was found
PA_Rota(s, id, rota_pickup) ==
    IF rota_pickup.sucesso
    THEN [s EXCEPT !.estado.veiculos[id] = definir_rota(@, rota_pickup.caminho)]
    ELSE s

\* every action of the plan applied to the real state
RECURSIVE CometerTudo(_, _)
CometerTudo(s, melhor_caminho) ==
    IF melhor_caminho = <<>> THEN s
    ELSE CometerTudo(
             PA_Rota(PA_Atribuir(s, ObterPedido(s.estado.pedidos_pendentes,
                                                melhor_caminho[1].pedido),
                                 melhor_caminho[1].veiculo),
                     melhor_caminho[1].veiculo,
                     Algoritmo(s, s.estado.veiculos[melhor_caminho[1].veiculo].localizacao,
                               ObterPedido(s.estado.pedidos_pendentes,
                                           melhor_caminho[1].pedido).origem)),
             Tail(melhor_caminho))

PA_Cometer(s, melhor_caminho) ==
    IF melhor_caminho = <<>> THEN s
    ELSE PA_Rota(PA_Atribuir(s, ObterPedido(s.estado.pedidos_pendentes,
                                            melhor_caminho[1].pedido),
                             melhor_caminho[1].veiculo),
                 melhor_caminho[1].veiculo,
                 Algoritmo(s, s.estado.veiculos[melhor_caminho[1].veiculo].localizacao,
                           ObterPedido(s.estado.pedidos_pendentes,
                                       melhor_caminho[1].pedido).origem))

processar_atribuicoes_inteligente(s) == PA_Cometer(s, Planear(s))

\* the request id wherever the lists hold it, changed by f
AtualizarPedido(e, id, f(_)) ==
    LET Em(lista) == [i \in 1..Len(lista) |-> IF lista[i].id = id THEN f(lista[i])
                                              ELSE lista[i]]
    IN  [e EXCEPT !.pedidos_pendentes = Em(@), !.pedidos_ativos = Em(@),
                  !.pedidos_concluidos = Em(@)]

\* the vehicle leaves for the station, if the route was found
RV_Enviar(s, veiculo_id, no_estacao_id, rota) ==
    IF ~rota.sucesso THEN s
    ELSE [s EXCEPT !.estado.veiculos[veiculo_id] =
            [definir_rota(@, rota.caminho) EXCEPT !.destino_atual = no_estacao_id,
                                                  !.em_missao_recarga = TRUE,
                                                  !.estado = A_CAMINHO]]

RV_Rota(s, veiculo_id, no_estacao_id) ==
    RV_Enviar(s, veiculo_id, no_estacao_id,
              Algoritmo(s, s.estado.veiculos[veiculo_id].localizacao, no_estacao_id))

recarregar_veiculo(s, veiculo_id, forcado) ==
    IF veiculo_id \notin Range(s.estado.ordem) THEN s
    ELSE IF ~forcado /\ s.estado.veiculos[veiculo_id].estado # DISPONIVEL THEN s
    ELSE IF NosDoTipo(s.grafo, TipoEstacaoDe(s.estado.veiculos[veiculo_id])) = <<>> THEN s
    ELSE RV_Rota(s, veiculo_id,
                 MaisProxima(s.grafo,
                             NosDoTipo(s.grafo, TipoEstacaoDe(s.estado.veiculos[veiculo_id])),
                             s.estado.veiculos[veiculo_id].localizacao))

\* the calls of verificar_e_escalar_prioridade, one per pending request
Verificados(s) ==
    [i \in 1..Len(s.estado.pedidos_pendentes) |->
        verificar_e_escalar_prioridade(s.estado.pedidos_pendentes[i], s.tempo_atual)]

\* pedidos_a_remover, as the second loop leaves them
PedidosARemover(s) ==
    LET v == Verificados(s)
        a_remover == SelectSeq(v, LAMBDA r : r.retorno = "EXPIRAR")
    IN  [i \in 1..Len(a_remover) |-> marcar_expirado(a_remover[i].pedido)]

\* the counts are updated and the requests to remove stay in the pool
AtualizarSemRemover(s) ==
    [s EXCEPT
        !.estado.pedidos_pendentes = [i \in 1..Len(Verificados(s)) |-> Verificados(s)[i].pedido],
        !.metricas.pedidos_escalados =
            @ + Len(SelectSeq(Verificados(s), LAMBDA r : r.retorno = "ESCALADO_CRITICO")),
        !.metricas.pedidos_expirados =
            @ + Len(SelectSeq(Verificados(s), LAMBDA r : r.retorno = "EXPIRAR"))]

atualizar_prioridades_pedidos(s) ==
    LET v == Verificados(s)
        ficam == SelectSeq(v, LAMBDA r : r.retorno # "EXPIRAR")
    IN  [s EXCEPT
            !.estado.pedidos_pendentes = [i \in 1..Len(ficam) |-> ficam[i].pedido],
            !.metricas.pedidos_escalados =
                @ + Len(SelectSeq(v, LAMBDA r : r.retorno = "ESCALADO_CRITICO")),
            !.metricas.pedidos_expirados =
                @ + Len(SelectSeq(v, LAMBDA r : r.retorno = "EXPIRAR"))]

\* Pedido._contador as the id "P%04d"
IdsPedidos == <<"P0001", "P0002", "P0003", "P0004">>

(***************************************************************************)
(* gerar_pedido_aleatorio.  sorteio is what random gave: NoSorteio for the *)
(* 70% of the steps without a request, else origem, destino,               *)
(* num_passageiros and premium.  The Pedido is created without a           *)
(* timestamp, so Pedido.__init__ takes datetime.now(): agora_real, the     *)
(* wall clock, not tempo_atual.                                            *)
(***************************************************************************)
NoSorteio == [origem |-> NoneId, destino |-> NoneId, num_passageiros |-> 0, premium |-> FALSE]

gerar_pedido_aleatorio(s, sorteio, agora_real) ==
    IF sorteio = NoSorteio THEN s
    ELSE
    LET novo_pedido == Pedido(IdsPedidos[s.contador + 1], sorteio.origem, sorteio.destino,
                              sorteio.num_passageiros, agora_real,
                              IF sorteio.premium THEN PREMIUM ELSE NORMAL,
                              INDIFERENTE,
                              IF sorteio.premium THEN 30 ELSE 60)
    IN  [s EXCEPT !.estado = adicionar_pedido(@, novo_pedido), !.contador = @ + 1]

\* one vehicle of the loop of atualizar_movimento_veiculos, charging; the
\* range is kept to the tenth of a km below the float of the code
EmRecarga(s, id) ==
    LET v == s.estado.veiculos[id]
        tempo_em_recarga == v.tempo_em_recarga + 1
        falta == v.autonomia_max - v.autonomia_atual
        ganho == v.autonomia_max - v.autonomia_ao_iniciar_recarga
    IN  IF falta = 0 THEN [s EXCEPT !.excecao = "ZeroDivisionError",
                                    !.estado.veiculos[id].tempo_em_recarga = tempo_em_recarga]
        ELSE
        LET carregada == v.autonomia_ao_iniciar_recarga
                         + (tempo_em_recarga * v.autonomia_max * ganho)
                           \div (falta * TempoCompleto(v))
            autonomia_atual == IF carregada > v.autonomia_max THEN v.autonomia_max
                               ELSE carregada
        IN  IF 1000 * autonomia_atual >= 999 * v.autonomia_max
            THEN [s EXCEPT !.estado.veiculos[id] =
                    [v EXCEPT !.autonomia_atual = v.autonomia_max, !.estado = DISPONIVEL,
                              !.tempo_em_recarga = 0, !.destino_atual = NoneId]]
            ELSE [s EXCEPT !.estado.veiculos[id] =
                    [v EXCEPT !.autonomia_atual = autonomia_atual,
                              !.tempo_em_recarga = tempo_em_recarga]]

\* the vehicle v is at the pickup: the route to the destination of its request
Recolher(s, v, rota) ==
    [s EXCEPT !.estado.veiculos[v.id] =
        IF rota.sucesso
        THEN definir_rota([v EXCEPT !.estado = EM_SERVICO], rota.caminho)
        ELSE [v EXCEPT !.estado = DISPONIVEL, !.pedido_atual = NoneId]]

\* the vehicle v has arrived (chegou)
Chegou(s, v) ==
    LET id == v.id
        no_tipo == IF v.localizacao \in IdsNos(s.grafo)
                   THEN ObterNo(s.grafo, v.localizacao).tipo ELSE NoneId
        com(w) == [s EXCEPT !.estado.veiculos[id] = w]
    IN  IF v.em_missao_recarga
        THEN IF no_tipo = TipoEstacaoDe(v)
             THEN com([v EXCEPT !.autonomia_ao_iniciar_recarga = v.autonomia_atual,
                                !.tempo_em_recarga = 0,
                                !.estado = IF v.tipo_str = "eletrico" THEN EM_RECARGA
                                           ELSE EM_ABASTECIMENTO,
                                !.em_missao_recarga = FALSE])
             ELSE com([v EXCEPT !.em_missao_recarga = FALSE, !.estado = DISPONIVEL,
                                !.destino_atual = NoneId])
        ELSE IF v.estado = A_CAMINHO
        THEN IF v.pedido_atual = NoneId
             THEN [com([v EXCEPT !.estado = EM_SERVICO]) EXCEPT !.excecao = "AttributeError"]
             ELSE
             Recolher([s EXCEPT !.estado = AtualizarPedido(@, v.pedido_atual,
                                                          iniciar_viagem_pedido)],
                      v,
                      Algoritmo(s, v.localizacao,
                                ObterPedido(s.estado.pedidos_pendentes \o s.estado.pedidos_ativos
                                            \o s.estado.pedidos_concluidos,
                                            v.pedido_atual).destino))
        ELSE IF v.estado = EM_SERVICO
        THEN LET e1 == [s.estado EXCEPT !.veiculos[id] = v]
                 e2 == IF v.pedido_atual = NoneId THEN e1
                       ELSE concluir_pedido(e1, v.pedido_atual)
             IN  [s EXCEPT !.estado = [e2 EXCEPT !.veiculos[id].estado = DISPONIVEL,
                                                 !.veiculos[id].pedido_atual = NoneId]]
        ELSE com(v)

\* the loop of atualizar_movimento_veiculos over the vehicles ordem[i..]
RECURSIVE MovimentoLoop(_, _)
MovimentoLoop(s, i) ==
    IF i > Len(s.estado.ordem) \/ s.excecao # NoneId THEN s
    ELSE
    LET id == s.estado.ordem[i]
        veiculo == s.estado.veiculos[id]
    IN  IF veiculo.estado \in {EM_RECARGA, EM_ABASTECIMENTO}
        THEN MovimentoLoop(EmRecarga(s, id), i + 1)
        ELSE IF veiculo.estado = DISPONIVEL THEN MovimentoLoop(s, i + 1)
        ELSE
        LET r == atualizar_posicao(veiculo, s.grafo, 40)
        IN  IF r.excecao # NoneId
            THEN [s EXCEPT !.excecao = r.excecao, !.estado.veiculos[id] = r.veiculo]
            ELSE IF r.chegou THEN MovimentoLoop(Chegou(s, r.veiculo), i + 1)
            ELSE MovimentoLoop([s EXCEPT !.estado.veiculos[id] = r.veiculo], i + 1)

atualizar_movimento_veiculos(s) == MovimentoLoop(s, 1)

\* AbortarViagem that takes the request from pedidos_ativos and drops it
AbortarSemDevolver(s, id) ==
    LET v == s.estado.veiculos[id]
    IN  [s EXCEPT !.estado.pedidos_ativos = RemoverPedido(@, v.pedido_atual),
                  !.estado.veiculos[id] =
                      [v EXCEPT !.pedido_atual = NoneId, !.rota_atual = <<>>,
                                !.proximo_no_index = 0, !.progresso_aresta = 0,
                                !.passageiros_atuais = 0, !.destino_atual = NoneId,
                                !.estado = DISPONIVEL]]

\* CASO 2 of verificar_e_recarregar_veiculos: the trip of v is aborted
AbortarViagem(s, id) ==
    LET v == s.estado.veiculos[id]
        e == s.estado
        e1 == IF v.pedido_atual # NoneId /\ TemPedido(e.pedidos_ativos, v.pedido_atual)
              THEN [e EXCEPT !.pedidos_ativos = RemoverPedido(@, v.pedido_atual),
                             !.pedidos_pendentes =
                                Append(@, DevolverPedido(ObterPedido(e.pedidos_ativos,
                                                                     v.pedido_atual)))]
              ELSE e
    IN  [s EXCEPT !.estado = [e1 EXCEPT !.veiculos[id] =
            [v EXCEPT !.pedido_atual = NoneId, !.rota_atual = <<>>,
                      !.proximo_no_index = 0, !.progresso_aresta = 0,
                      !.passageiros_atuais = 0, !.destino_atual = NoneId,
                      !.estado = DISPONIVEL]]]

\* every trip is aborted, whatever the range of the vehicle
AbortarSempre(s, v) ==
    IF v.estado \in {A_CAMINHO, EM_SERVICO}
    THEN recarregar_veiculo(AbortarViagem(s, v.id), v.id, FALSE)
    ELSE s

\* limiar = 0.3, limiar_critico = 0.15
\* one vehicle of the loop: available with a low battery, or on the road with
\* a critical one
VerificarVeiculo(s, v) ==
    IF v.estado = DISPONIVEL /\ 10 * v.autonomia_atual < 3 * v.autonomia_max
    THEN recarregar_veiculo(s, v.id, FALSE)
    ELSE IF v.estado \in {A_CAMINHO, EM_SERVICO}
            /\ 100 * v.autonomia_atual < 15 * v.autonomia_max
    THEN recarregar_veiculo(AbortarViagem(s, v.id), v.id, FALSE)
    ELSE s

RECURSIVE VerificarLoop(_, _)
VerificarLoop(s, i) ==
    IF i > Len(s.estado.ordem) THEN s
    ELSE VerificarLoop(VerificarVeiculo(s, s.estado.veiculos[s.estado.ordem[i]]), i + 1)

verificar_e_recarregar_veiculos(s) == VerificarLoop(s, 1)

\* an exception of atualizar_movimento_veiculos leaves correr_passo
DepoisDoMovimento(s) ==
    IF s.excecao # NoneId THEN s ELSE verificar_e_recarregar_veiculos(s)

\* correr_passo up to the call of processar_atribuicoes_inteligente
AteAoPlano(s, sorteio, agora_real) ==
    gerar_pedido_aleatorio(
        atualizar_prioridades_pedidos([s EXCEPT !.tempo_atual = @ + 60]),
        sorteio, agora_real)

\* the vehicles moved before the planner is called
MovimentoAntesDoPlano(s, sorteio, agora_real) ==
    processar_atribuicoes_inteligente(
        atualizar_movimento_veiculos(AteAoPlano(s, sorteio, agora_real)))

\* correr_passo up to the call of verificar_e_recarregar_veiculos
AteAoMovimento(s, sorteio, agora_real) ==
    atualizar_movimento_veiculos(
        processar_atribuicoes_inteligente(AteAoPlano(s, sorteio, agora_real)))

correr_passo(s, sorteio, agora_real) ==
    DepoisDoMovimento(AteAoMovimento(s, sorteio, agora_real))

\* the vehicles that verificar_e_recarregar_veiculos finds on the road with a
\* request and under limiar_critico, each with its request; none when the
\* step ended in atualizar_movimento_veiculos
Abortados(s) ==
    IF s.excecao # NoneId THEN <<>> ELSE
    LET ids == SelectSeq(s.estado.ordem,
                   LAMBDA id : /\ s.estado.veiculos[id].estado \in {A_CAMINHO, EM_SERVICO}
                               /\ s.estado.veiculos[id].pedido_atual # NoneId
                               /\ 100 * s.estado.veiculos[id].autonomia_atual
                                      < 15 * s.estado.veiculos[id].autonomia_max)
    IN  [i \in 1..Len(ids) |-> [veiculo |-> s.estado.veiculos[ids[i]],
                                 pedido |-> s.estado.veiculos[ids[i]].pedido_atual]]

\* what a step is remembered by: the requests it expired, what random gave,
\* the plan of the search, and the trips it aborted
Ultimo(s, sorteio, agora_real) ==
    [expirados |-> PedidosARemover([s EXCEPT !.tempo_atual = @ + 60]),
     sorteio |-> sorteio,
     plano |-> Planear(AteAoPlano(s, sorteio, agora_real)),
     abortados |-> Abortados(AteAoMovimento(s, sorteio, agora_real))]

\* before the first step
SemPasso == [expirados |-> <<>>, sorteio |-> NoSorteio, plano |-> <<>>, abortados |-> <<>>]

-----------------------------------------------------------------------------
(***************************************************************************)
(* The simulator.  The map has its four nodes on a rectangle of 6 km by    *)
(* 8 km, the charging station at B and the fuel station at C, and a road   *)
(* between every two nodes: 6 km along the short sides and 10 km between   *)
(* the others, 9 and 15 minutes at 40 km/h.  A step moves a vehicle for    *)
(* 0.4 minutes, so a road takes 22.5 or 37.5 steps: no arrival falls on    *)
(* the boundary of a step, where it would hang on the rounding of          *)
(* progresso_aresta.  main.py runs one step every INTERVALO_SIMULACAO = 1  *)
(* second of the wall clock, or less often when the drawing is slow; a     *)
(* step adds one minute to tempo_atual.                                    *)
(***************************************************************************)

Estrada(origem, destino, distancia) ==
    [origem |-> origem, destino |-> destino, distancia |-> distancia,
     tempo_base |-> NoneNum, fator_transito |-> 1]

DadosCidade ==
    [direcional |-> FALSE,
     nos |-> << [id |-> "A", tipo |-> "normal", coords |-> <<0, 0>>,
                 capacidade_recarga |-> 0, zona |-> "centro"],
                [id |-> "B", tipo |-> "estacao_recarga", coords |-> <<6, 0>>,
                 capacidade_recarga |-> 2],
                [id |-> "C", tipo |-> "posto_abastecimento", coords |-> <<0, 8>>,
                 capacidade_recarga |-> 2],
                [id |-> "D", tipo |-> "normal", coords |-> <<6, 8>>,
                 capacidade_recarga |-> 0] >>,
     arestas |-> << Estrada("A", "B", 6), Estrada("A", "C", 10), Estrada("A", "D", 10),
                    Estrada("B", "C", 10), Estrada("B", "D", 10), Estrada("C", "D", 6) >>]

OrdemFrota == <<"T_E1", "T_E2", "T_C1", "T_C2", "V_E1", "V_C1">>

\* random.choice(nos_mapa), vehicle by vehicle: the placements of the model
Colocacoes ==
    {[id \in Range(OrdemFrota) |-> "A"],
     [id \in Range(OrdemFrota) |-> IF id \in {"T_E1", "T_C1", "V_E1"} THEN "A" ELSE "D"]}

\* Simulador.__init__ at the wall-clock time 0
Simulador(dados, colocacao) ==
    [grafo |-> carregar_json(dados),
     tempo_atual |-> 0,
     estado |-> Estado([id \in Range(OrdemFrota) |->
                            IF id \in {"T_E1", "T_E2"} THEN TaxiEletrico(id, colocacao[id])
                            ELSE IF id \in {"T_C1", "T_C2"}
                            THEN TaxiCombustao(id, colocacao[id])
                            ELSE IF id = "V_E1" THEN taxiXLEletrica(id, colocacao[id])
                            ELSE taxiXLCombustao(id, colocacao[id])],
                       OrdemFrota, <<>>, 0),
     metricas |-> [pedidos_expirados |-> 0, pedidos_escalados |-> 0],
     algoritmo_ativo |-> "A* (Otimo)",
     contador |-> 0,
     excecao |-> NoneId]

\* main.py; percentagem_bateria in hundredths
inicializar_frota_bateria_baixa(s, percentagem_bateria) ==
    LET frota == s.estado.veiculos
    IN  [s EXCEPT !.estado.veiculos =
            [id \in DOMAIN frota |->
                [frota[id] EXCEPT !.autonomia_atual =
                    (frota[id].autonomia_max * percentagem_bateria) \div 100]]]

MaxPassos == 32
MaxPedidos == 2

\* the seconds of the wall clock between two steps
IntervalosReais == {1, 60}

\* what random gives to gerar_pedido_aleatorio, when it gives a request
Sorteios ==
    {[origem |-> par[1], destino |-> par[2], num_passageiros |-> tipo[1], premium |-> tipo[2]] :
        par \in {<<"B", "C">>, <<"D", "A">>}, tipo \in {<<1, TRUE>>, <<5, FALSE>>}}

InitSim ==
    /\ GrafoParado /\ PedidoParado /\ EstacaoParada /\ gemeo = None /\ memoria = None
    /\ \E colocacao \in Colocacoes, baixa \in BOOLEAN :
        sim = IF baixa
              THEN inicializar_frota_bateria_baixa(Simulador(DadosCidade, colocacao), 20)
              ELSE Simulador(DadosCidade, colocacao)
    /\ \E d \in IntervalosReais : relogio = [agora |-> 0, intervalo |-> d]
    /\ ultimo = SemPasso

\* one turn of the loop of main.py that runs a step, random giving one of
\* sorteios, while fewer than max_passos steps have run
Passo(sorteios, max_passos) ==
    /\ sim.excecao = NoneId
    /\ sim.tempo_atual < 60 * max_passos
    /\ \E sorteio \in sorteios :
        LET agora_real == relogio.agora + relogio.intervalo
        IN  /\ sim' = correr_passo(sim, sorteio, agora_real)
            /\ relogio' = [relogio EXCEPT !.agora = agora_real]
            /\ ultimo' = Ultimo(sim, sorteio, agora_real)
    /\ UNCHANGED fora_do_sim

CorrerPasso ==
    Passo({NoSorteio} \cup (IF sim.contador < MaxPedidos THEN Sorteios ELSE {}), MaxPassos)

NextSim == CorrerPasso

SpecSim == InitSim /\ [][NextSim]_vars

\* C8: every request that a step expires from the pending pool has the
\* priority CRITICO when it is expired: it was escalated before.
C8_ExpiradoEraCritico ==
    ultimo # None =>
        \A i \in 1..Len(ultimo.expirados) : ultimo.expirados[i].prioridade = CRITICO

-----------------------------------------------------------------------------
(***************************************************************************)
(* The Veiculo methods called from outside the simulator, between its      *)
(* steps: mover_para along a road out of the node where the vehicle is.    *)
(***************************************************************************)

MaxPassosVeiculo == 6

\* the vehicles mover_para is called on
IdsMovidos == {"V_E1"}

InitVeiculo ==
    /\ GrafoParado /\ PedidoParado /\ EstacaoParada /\ gemeo = None /\ memoria = None
    /\ \E baixa \in BOOLEAN :
        sim = IF baixa
              THEN inicializar_frota_bateria_baixa(
                       Simulador(DadosCidade, [id \in Range(OrdemFrota) |-> "A"]), 20)
              ELSE Simulador(DadosCidade, [id \in Range(OrdemFrota) |-> "A"])
    /\ relogio = [agora |-> 0, intervalo |-> 60]
    /\ ultimo = SemPasso

PassoVeiculo == Passo({NoSorteio}, MaxPassosVeiculo)

\* veiculo.mover_para(destino, distancia of the road)
MoverPara ==
    /\ sim.excecao = NoneId
    /\ \E id \in IdsMovidos, destino \in IdsNos(sim.grafo) :
        /\ sim.estado.veiculos[id].autonomia_atual >= 0
        /\ TemAresta(sim.grafo.arestas, sim.estado.veiculos[id].localizacao, destino)
        /\ sim' = [sim EXCEPT !.estado.veiculos[id] =
                mover_para(@, destino,
                           ObterAresta(sim.grafo.arestas, @.localizacao, destino).distancia)]
    /\ UNCHANGED <<relogio, ultimo, fora_do_sim>>

NextVeiculo == PassoVeiculo \/ MoverPara

SpecVeiculo == InitVeiculo /\ [][NextVeiculo]_vars

\* C11: after any sequence of vehicle operations and simulator steps, the
\* range of every vehicle is at least 0 and at most autonomia_max.
C11_AutonomiaNosLimites ==
    sim # None =>
        \A id \in Range(sim.estado.ordem) :
            /\ sim.estado.veiculos[id].autonomia_atual >= 0
            /\ sim.estado.veiculos[id].autonomia_atual <= sim.estado.veiculos[id].autonomia_max

-----------------------------------------------------------------------------
(***************************************************************************)
(* The simulator with ranges set vehicle by vehicle after the              *)
(* construction, as test_recarga_abastecimento.py and                      *)
(* teste_recarga_simples.py set them: some vehicles start under            *)
(* limiar_critico.                                                         *)
(***************************************************************************)

\* v.autonomia_atual = v.autonomia_max * percentagem; percentagens in hundredths
ComBaterias(s, percentagens) ==
    LET frota == s.estado.veiculos
    IN  [s EXCEPT !.estado.veiculos =
            [id \in DOMAIN frota |->
                [frota[id] EXCEPT !.autonomia_atual =
                    (frota[id].autonomia_max * percentagens[id]) \div 100]]]

BateriasCriticas ==
    {[id \in Range(OrdemFrota) |-> IF id = "T_E1" THEN 10 ELSE 100],
     [id \in Range(OrdemFrota) |-> IF id \in {"V_E1", "V_C1"} THEN 10 ELSE 100],
     [id \in Range(OrdemFrota) |-> 10]}

MaxPassosCritico == 6

InitCritico ==
    /\ GrafoParado /\ PedidoParado /\ EstacaoParada /\ gemeo = None /\ memoria = None
    /\ \E colocacao \in Colocacoes, percentagens \in BateriasCriticas :
        sim = ComBaterias(Simulador(DadosCidade, colocacao), percentagens)
    /\ relogio = [agora |-> 0, intervalo |-> 60]
    /\ ultimo = SemPasso

PassoCritico ==
    Passo({NoSorteio} \cup (IF sim.contador < MaxPedidos THEN Sorteios ELSE {}),
          MaxPassosCritico)

NextCritico == PassoCritico

SpecCritico == InitCritico /\ [][NextCritico]_vars

\* the route of v is the one recarregar_veiculo sets: from where v is to a
\* station of its kind, not yet begun
RotaDeRecarga(g, v) ==
    /\ v.em_missao_recarga
    /\ v.rota_atual # <<>>
    /\ v.rota_atual[1] = v.localizacao
    /\ v.rota_atual[Len(v.rota_atual)] = v.destino_atual
    /\ ObterNo(g, v.destino_atual).tipo = TipoEstacaoDe(v)
    /\ v.proximo_no_index = 1

-----------------------------------------------------------------------------
(***************************************************************************)
(* A fleet of combustion vehicles only: estado.veiculos is cleared after   *)
(* the construction and refilled, as teste_recarga_simples.py does, here   *)
(* with the combustion vehicles alone, all at A.  The pool holds one       *)
(* request from B to C that accepts only electric vehicles, created at the *)
(* wall-clock time of the construction.                                    *)
(***************************************************************************)

OrdemCombustao == <<"T_C1", "T_C2", "V_C1">>

\* sim.estado.veiculos.clear() and the vehicles of ordem created again
FrotaDe(s, ordem) ==
    [s EXCEPT !.estado.veiculos = [id \in Range(ordem) |-> @[id]],
              !.estado.ordem = ordem]

\* estado.adicionar_pedido(Pedido(..., preferencia_ambiental=...)), premium
\* as criar_pedido_manual sets prioridade and tempo_espera_maximo
ComPedido(s, origem, destino, num_passageiros, premium, preferencia_ambiental) ==
    [s EXCEPT !.estado = adicionar_pedido(@,
                  Pedido(IdsPedidos[s.contador + 1], origem, destino, num_passageiros,
                         s.tempo_atual,
                         IF premium THEN PREMIUM ELSE NORMAL,
                         preferencia_ambiental,
                         IF premium THEN 30 ELSE 60)),
              !.contador = @ + 1]

MaxPassosCombustao == 62

InitCombustao ==
    /\ GrafoParado /\ PedidoParado /\ EstacaoParada /\ gemeo = None /\ memoria = None
    /\ \E premium \in BOOLEAN :
        sim = ComPedido(FrotaDe(Simulador(DadosCidade, [id \in Range(OrdemFrota) |-> "A"]),
                                OrdemCombustao),
                        "B", "C", 1, premium, APENAS_ELETRICO)
    /\ \E d \in IntervalosReais : relogio = [agora |-> 0, intervalo |-> d]
    /\ ultimo = SemPasso

PassoCombustao ==
    Passo({NoSorteio} \cup (IF sim.contador < MaxPedidos THEN Sorteios ELSE {}),
          MaxPassosCombustao)

NextCombustao == PassoCombustao

\* the wall clock of a step: only a step moves relogio, and every step does
Tique(max_passos) ==
    /\ sim.excecao = NoneId
    /\ sim.tempo_atual < 60 * max_passos
    /\ relogio' = [relogio EXCEPT !.agora = @ + relogio.intervalo]

\* the loop of main.py runs a step whenever one can run
SpecCombustao ==
    InitCombustao /\ [][NextCombustao]_vars /\ WF_relogio(Tique(MaxPassosCombustao))

\* the request with id is in none of the lists of assigned requests, no
\* vehicle carries it, and neither the actions of the state nor the plan of
\* the last step pair it with a vehicle
SemEmparelhamento(s, u, id) ==
    /\ ~TemPedido(s.estado.pedidos_ativos, id)
    /\ ~TemPedido(s.estado.pedidos_concluidos, id)
    /\ \A v \in Range(s.estado.ordem) : s.estado.veiculos[v].pedido_atual # id
    /\ \A a \in Range(obter_acoes_possiveis(s.estado, s.grafo)) : a.pedido # id
    /\ \A a \in Range(u.plano) : a.pedido # id

\* the request with id has left the pending pool, expired by a step
Expirou(s, id) ==
    /\ ~TemPedido(s.estado.pedidos_pendentes, id)
    /\ s.metricas.pedidos_expirados > 0

\* C13: with a fleet of combustion vehicles only, the pending request that
\* accepts only electric vehicles is never paired with a vehicle, by no
\* action and in no step, and after enough steps it has expired and left
\* the pending pool.
C13_ApenasEletricoNuncaAtribuido ==
    /\ [](sim # None => SemEmparelhamento(sim, ultimo, "P0001"))
    /\ <>(sim # None /\ Expirou(sim, "P0001"))

\* the step that expires the request, with a vehicle free that has the
\* seats and the range for it
C13_Witness ==
    /\ sim # None
    /\ \E i \in 1..Len(ultimo.expirados) :
        /\ ultimo.expirados[i].id = "P0001"
        /\ ultimo.expirados[i].preferencia_ambiental = APENAS_ELETRICO
        /\ ultimo.expirados[i].estado = EXPIRADO
    /\ Expirou(sim, "P0001")
    /\ \E v \in Range(sim.estado.ordem) :
        /\ sim.estado.veiculos[v].tipo_str = "combustao"
        /\ pode_atender_pedido(sim.estado.veiculos[v], 1, 16)

-----------------------------------------------------------------------------
(***************************************************************************)
(* The planner before one free vehicle and two requests with the same      *)
(* pickup node, one NORMAL and one PREMIUM, created in either order at the *)
(* time of the construction.  The fleet is one vehicle, at A.              *)
(***************************************************************************)

MaxPassosPremium == 2

\* the pickup node and the two destinations
ViagensPremium ==
    {v \in [origem : {"B", "C", "D"}, normal : {"A", "B", "C", "D"},
            premium : {"A", "B", "C", "D"}] :
        v.normal # v.origem /\ v.premium # v.origem}

InitPremium ==
    /\ GrafoParado /\ PedidoParado /\ EstacaoParada /\ gemeo = None /\ memoria = None
    /\ \E id \in Range(OrdemFrota), v \in ViagensPremium, primeiro \in BOOLEAN :
        sim = ComPedido(
                  ComPedido(FrotaDe(Simulador(DadosCidade, [i \in Range(OrdemFrota) |-> "A"]),
                                    <<id>>),
                            v.origem, IF primeiro THEN v.premium ELSE v.normal, 1, primeiro,
                            INDIFERENTE),
                  v.origem, IF primeiro THEN v.normal ELSE v.premium, 1, ~primeiro,
                  INDIFERENTE)
    /\ relogio = [agora |-> 0, intervalo |-> 60]
    /\ ultimo = SemPasso

PassoPremium == Passo({NoSorteio}, MaxPassosPremium)

NextPremium == PassoPremium

SpecPremium == InitPremium /\ [][NextPremium]_vars

\* the planner is called on s with exactly one free vehicle and two pending
\* requests, one NORMAL and one PREMIUM, each with an action for that
\* vehicle, at the same distance from it
UmVeiculoDoisPedidos(s) ==
    /\ Len(obter_veiculos_disponiveis(s.estado)) = 1
    /\ Len(s.estado.pedidos_pendentes) = 2
    /\ {s.estado.pedidos_pendentes[i].prioridade : i \in 1..2} = {NORMAL, PREMIUM}
    /\ \A i \in 1..2 :
        \E a \in Range(obter_acoes_possiveis(s.estado, s.grafo)) :
            a.pedido = s.estado.pedidos_pendentes[i].id
    /\ distancia_euclidiana(s.grafo,
           s.estado.veiculos[obter_veiculos_disponiveis(s.estado)[1]].localizacao,
           s.estado.pedidos_pendentes[1].origem)
       = distancia_euclidiana(s.grafo,
           s.estado.veiculos[obter_veiculos_disponiveis(s.estado)[1]].localizacao,
           s.estado.pedidos_pendentes[2].origem)

\* the PREMIUM request of the pool of s
PedidoPremium(s) ==
    IF s.estado.pedidos_pendentes[1].prioridade = PREMIUM
    THEN s.estado.pedidos_pendentes[1] ELSE s.estado.pedidos_pendentes[2]

\* C14: a step whose planner finds one free vehicle and a NORMAL and a
\* PREMIUM request, both feasible and at the same pickup distance, gives
\* the vehicle to the PREMIUM request, whatever the two trips are.
C14_PreferePremium ==
    [][UmVeiculoDoisPedidos(AteAoPlano(sim, NoSorteio, relogio.agora + relogio.intervalo))
         => /\ ultimo'.plano # <<>>
            /\ ultimo'.plano[1].pedido
                   = PedidoPremium(AteAoPlano(sim, NoSorteio,
                                              relogio.agora + relogio.intervalo)).id
            /\ TemPedido(sim'.estado.pedidos_ativos, ultimo'.plano[1].pedido)]_vars

-----------------------------------------------------------------------------
\* the vehicle is further along its route in w than in v: at another node,
\* or further on the same edge
Avancou(v, w) ==
    \/ w.localizacao # v.localizacao
    \/ w.progresso_aresta > v.progresso_aresta

\* C15: a step of the simulator that moves a vehicle along its route lowers
\* the range of the vehicle, by the distance it covered.
C15_MovimentoConsomeAutonomia ==
    [][\A id \in Range(sim.estado.ordem) :
          Avancou(sim.estado.veiculos[id], sim'.estado.veiculos[id])
              => sim'.estado.veiculos[id].autonomia_atual
                     < sim.estado.veiculos[id].autonomia_atual]_vars

-----------------------------------------------------------------------------
(***************************************************************************)
(* The simulator on a map with two stations of each kind: the nodes and    *)
(* roads of DadosCidade, with A and C fuel stations and B and D charging   *)
(* stations.  Some vehicles start under limiar (30%) of their range.       *)
(***************************************************************************)

DadosEstacoes ==
    [DadosCidade EXCEPT
        !.nos = << [id |-> "A", tipo |-> "posto_abastecimento", coords |-> <<0, 0>>,
                    capacidade_recarga |-> 2, zona |-> "centro"],
                   [id |-> "B", tipo |-> "estacao_recarga", coords |-> <<6, 0>>,
                    capacidade_recarga |-> 2],
                   [id |-> "C", tipo |-> "posto_abastecimento", coords |-> <<0, 8>>,
                    capacidade_recarga |-> 2],
                   [id |-> "D", tipo |-> "estacao_recarga", coords |-> <<6, 8>>,
                    capacidade_recarga |-> 2] >>]

ColocacoesEstacoes ==
    {[id \in Range(OrdemFrota) |-> "A"],
     [id \in Range(OrdemFrota) |-> "C"],
     [id \in Range(OrdemFrota) |-> IF id \in {"T_E1", "V_E1"} THEN "C"
                                   ELSE IF id = "T_C1" THEN "B" ELSE "D"]}

BateriasEstacoes ==
    {[id \in Range(OrdemFrota) |-> 20],
     [id \in Range(OrdemFrota) |-> IF id \in {"T_E1", "T_C2"} THEN 20 ELSE 100],
     [id \in Range(OrdemFrota) |-> IF id \in {"V_E1", "T_C1"} THEN 25 ELSE 100],
     [id \in Range(OrdemFrota) |-> IF id \in {"T_E2", "V_C1"} THEN 10 ELSE 100]}

MaxPassosEstacoes == 4

InitEstacoes ==
    /\ GrafoParado /\ PedidoParado /\ EstacaoParada /\ gemeo = None /\ memoria = None
    /\ \E colocacao \in ColocacoesEstacoes, percentagens \in BateriasEstacoes :
        sim = ComBaterias(Simulador(DadosEstacoes, colocacao), percentagens)
    /\ relogio = [agora |-> 0, intervalo |-> 60]
    /\ ultimo = SemPasso

PassoEstacoes ==
    Passo({NoSorteio} \cup (IF sim.contador < MaxPedidos THEN Sorteios ELSE {}),
          MaxPassosEstacoes)

NextEstacoes == PassoEstacoes

SpecEstacoes == InitEstacoes /\ [][NextEstacoes]_vars

\* the vehicles the check at the end of the last step has sent to a
\* station: on a recharge mission, with a route not yet begun
Enviados(s) ==
    {id \in Range(s.estado.ordem) :
        /\ s.excecao = NoneId
        /\ s.estado.veiculos[id].estado = A_CAMINHO
        /\ RotaDeRecarga(s.grafo, s.estado.veiculos[id])
        /\ s.estado.veiculos[id].progresso_aresta = 0}

\* C16: the station a vehicle is sent to by the check of a step is of the
\* kind of the vehicle, estacao_recarga for an electric vehicle and
\* posto_abastecimento for a combustion vehicle, and no node of that kind
\* is nearer to the vehicle in Euclidean distance.
C16_EstacaoCompativelMaisProxima ==
    sim # None =>
        \A id \in Enviados(sim) :
            LET v == sim.estado.veiculos[id]
            IN  /\ v.destino_atual \in IdsNos(sim.grafo)
                /\ ObterNo(sim.grafo, v.destino_atual).tipo
                       = (IF v.tipo = ELETRICO THEN "estacao_recarga"
                          ELSE "posto_abastecimento")
                /\ \A n \in IdsNos(sim.grafo) :
                       ObterNo(sim.grafo, n).tipo = ObterNo(sim.grafo, v.destino_atual).tipo
                           => distancia_euclidiana(sim.grafo, v.localizacao, v.destino_atual)
                                  <= distancia_euclidiana(sim.grafo, v.localizacao, n)

\* an electric and a combustion vehicle are sent, each to a station that is
\* not the first of its kind on the map and is nearer than the first
C16_Witness ==
    /\ sim # None
    /\ \E e \in Enviados(sim), c \in Enviados(sim) :
        /\ sim.estado.veiculos[e].tipo = ELETRICO
        /\ sim.estado.veiculos[e].destino_atual = "D"
        /\ sim.estado.veiculos[c].tipo = COMBUSTAO
        /\ sim.estado.veiculos[c].destino_atual = "C"
        /\ sim.estado.veiculos[c].localizacao = "D"
        /\ distancia_euclidiana(sim.grafo, "D", "C") < distancia_euclidiana(sim.grafo, "D", "A")

-----------------------------------------------------------------------------
(***************************************************************************)
(* The simulator with recarregar_veiculo called from outside the step, on  *)
(* a vehicle with whatever range it has.  No request is generated.         *)
(***************************************************************************)

MaxPassosRecarga == 26

BateriasRecarga ==
    {[id \in Range(OrdemFrota) |-> 100],
     [id \in Range(OrdemFrota) |-> 20],
     [id \in Range(OrdemFrota) |-> IF id \in {"T_E1", "T_C1"} THEN 60 ELSE 100]}

\* the vehicles recarregar_veiculo is called on
IdsEnviados == {"T_E1", "T_C1"}

InitRecarga ==
    /\ GrafoParado /\ PedidoParado /\ EstacaoParada /\ gemeo = None /\ memoria = None
    /\ \E percentagens \in BateriasRecarga :
        sim = ComBaterias(Simulador(DadosCidade, [id \in Range(OrdemFrota) |-> "A"]),
                          percentagens)
    /\ relogio = [agora |-> 0, intervalo |-> 60]
    /\ ultimo = SemPasso

PassoRecarga == Passo({NoSorteio}, MaxPassosRecarga)

\* sim.recarregar_veiculo(id) between two steps
RecarregarVeiculo ==
    /\ sim.excecao = NoneId
    /\ \E id \in IdsEnviados : sim' = recarregar_veiculo(sim, id, FALSE)
    /\ UNCHANGED <<relogio, ultimo, fora_do_sim>>

NextRecarga == PassoRecarga \/ RecarregarVeiculo

SpecRecarga == InitRecarga /\ [][NextRecarga]_vars

\* C17: a step that finds a vehicle charging or refuelling, with whatever
\* range it arrived, raises no error and raises the range of the vehicle,
\* never above autonomia_max (the claim adds that the vehicle is then back
\* available at autonomia_max after finitely many steps).
C17_RecargaSemErro ==
    [][\A id \in Range(sim.estado.ordem) :
          /\ sim.estado.veiculos[id].estado \in {EM_RECARGA, EM_ABASTECIMENTO}
          /\ sim'.tempo_atual # sim.tempo_atual
          => /\ sim'.excecao = NoneId
             /\ sim'.estado.veiculos[id].autonomia_atual
                    > sim.estado.veiculos[id].autonomia_atual
             /\ sim'.estado.veiculos[id].autonomia_atual
                    <= sim.estado.veiculos[id].autonomia_max]_vars

-----------------------------------------------------------------------------
-----------------------------------------------------------------------------
(***************************************************************************)
(* The planner before the whole fleet, free at A, and two requests created *)
(* at the time of the construction: a plan of two assignments.             *)
(***************************************************************************)

MaxPassosPlano == 3

InitPlano ==
    /\ GrafoParado /\ PedidoParado /\ EstacaoParada /\ gemeo = None /\ memoria = None
    /\ \E v \in ViagensPremium, primeiro \in BOOLEAN, num_passageiros \in {1, 5} :
        sim = ComPedido(
                  ComPedido(Simulador(DadosCidade, [i \in Range(OrdemFrota) |-> "A"]),
                            v.origem, IF primeiro THEN v.premium ELSE v.normal,
                            num_passageiros, primeiro, INDIFERENTE),
                  v.origem, IF primeiro THEN v.normal ELSE v.premium, 1, ~primeiro,
                  INDIFERENTE)
    /\ relogio = [agora |-> 0, intervalo |-> 60]
    /\ ultimo = SemPasso

PassoPlano == Passo({NoSorteio}, MaxPassosPlano)

NextPlano == PassoPlano

SpecPlano == InitPlano /\ [][NextPlano]_vars

\* the ids of the requests of a list
IdsDe(lista) == {lista[i].id : i \in 1..Len(lista)}

\* C19: a step assigns at most one request, the one of the first action of
\* the plan of its search and to the vehicle of that action; the requests
\* of the other actions of the plan stay pending, without vehicle.
C19_SoAPrimeiraAcao ==
    [][/\ Cardinality(IdsDe(sim'.estado.pedidos_ativos) \ IdsDe(sim.estado.pedidos_ativos)) <= 1
       /\ \A id \in IdsDe(sim'.estado.pedidos_ativos) \ IdsDe(sim.estado.pedidos_ativos) :
            /\ ultimo'.plano # <<>>
            /\ ultimo'.plano[1].pedido = id
            /\ ObterPedido(sim'.estado.pedidos_ativos, id).veiculo_atribuido
                   = ultimo'.plano[1].veiculo
       /\ ultimo'.plano # <<>> =>
            ultimo'.plano[1].pedido \in IdsDe(sim'.estado.pedidos_ativos)
       /\ \A j \in 2..Len(ultimo'.plano) :
            /\ TemPedido(sim'.estado.pedidos_pendentes, ultimo'.plano[j].pedido)
            /\ ObterPedido(sim'.estado.pedidos_pendentes,
                           ultimo'.plano[j].pedido).veiculo_atribuido = NoneId
            /\ sim'.estado.veiculos[ultimo'.plano[j].veiculo].pedido_atual
                   # ultimo'.plano[j].pedido]_vars

\* the plan of the last step has two actions, for two free vehicles, and
\* only the request of the first is assigned
C19_Witness ==
    /\ sim # None
    /\ Len(ultimo.plano) = 2
    /\ ultimo.plano[1].veiculo # ultimo.plano[2].veiculo
    /\ IdsDe(sim.estado.pedidos_ativos) = {ultimo.plano[1].pedido}
    /\ IdsDe(sim.estado.pedidos_pendentes) = {ultimo.plano[2].pedido}
    /\ sim.estado.veiculos[ultimo.plano[2].veiculo].estado = DISPONIVEL

-----------------------------------------------------------------------------
(***************************************************************************)
(* Two runs of the simulator from the same state, given the same values by *)
(* random in every step (the same seed) and stepped together; each has its *)
(* own wall clock, which gains its own number of seconds per step.         *)
(***************************************************************************)

MaxPassosGemeos == 24
MaxPedidosGemeos == 1

InitGemeos ==
    /\ GrafoParado /\ PedidoParado /\ EstacaoParada /\ memoria = None
    /\ \E colocacao \in Colocacoes, baixa \in BOOLEAN :
        /\ sim = IF baixa
                 THEN inicializar_frota_bateria_baixa(Simulador(DadosCidade, colocacao), 20)
                 ELSE Simulador(DadosCidade, colocacao)
        /\ \E d \in IntervalosReais : relogio = [agora |-> 0, intervalo |-> d]
        /\ \E d \in IntervalosReais :
            gemeo = [sim |-> sim, relogio |-> [agora |-> 0, intervalo |-> d]]
    /\ ultimo = SemPasso

\* one step of both runs, random giving the same sorteio to both
PassoGemeos ==
    /\ sim.excecao = NoneId /\ gemeo.sim.excecao = NoneId
    /\ sim.tempo_atual < 60 * MaxPassosGemeos
    /\ \E sorteio \in {NoSorteio} \cup (IF sim.contador < MaxPedidosGemeos THEN Sorteios
                                        ELSE {}) :
        /\ sim' = correr_passo(sim, sorteio, relogio.agora + relogio.intervalo)
        /\ relogio' = [relogio EXCEPT !.agora = @ + relogio.intervalo]
        /\ ultimo' = Ultimo(sim, sorteio, relogio.agora + relogio.intervalo)
        /\ gemeo' = [sim |-> correr_passo(gemeo.sim, sorteio,
                                          gemeo.relogio.agora + gemeo.relogio.intervalo),
                     relogio |-> [gemeo.relogio EXCEPT !.agora = @ + gemeo.relogio.intervalo]]
    /\ UNCHANGED <<vars_grafo, vars_pedido, vars_estacao, vars_memoria>>

NextGemeos == PassoGemeos

SpecGemeos == InitGemeos /\ [][NextGemeos]_vars

\* a request without the wall-clock time of its creation
SemTimestamp(p) == [c \in DOMAIN p \ {"timestamp"} |-> p[c]]

\* what the claim compares: the requests of the three lists with their
\* priority, state and vehicle, the vehicles, the simulated time and the
\* counts of expired and escalated requests
Visivel(s) ==
    [pendentes |-> [i \in 1..Len(s.estado.pedidos_pendentes) |->
                       SemTimestamp(s.estado.pedidos_pendentes[i])],
     ativos |-> [i \in 1..Len(s.estado.pedidos_ativos) |->
                    SemTimestamp(s.estado.pedidos_ativos[i])],
     concluidos |-> [i \in 1..Len(s.estado.pedidos_concluidos) |->
                        SemTimestamp(s.estado.pedidos_concluidos[i])],
     veiculos |-> s.estado.veiculos,
     tempo_atual |-> s.tempo_atual,
     metricas |-> s.metricas,
     excecao |-> s.excecao]

\* C20: two runs from the same state with the same random values are in
\* the same state after every step, whatever their wall clocks: the same
\* requests with the same priorities, the same expiries and assignments,
\* the same vehicles.
C20_Determinismo ==
    gemeo # None => Visivel(sim) = Visivel(gemeo.sim)

-----------------------------------------------------------------------------
(***************************************************************************)
(* One call of processar_atribuicoes_inteligente over the objects of the   *)
(* program.  mem is the memory: the object at every address, 0 being None. *)
(* A list or a dict holds the addresses of its items, a Veiculo the        *)
(* address of its pedido_atual and a Pedido of its veiculo_atribuido;      *)
(* campos holds the other attributes of a Veiculo or Pedido, as in the     *)
(* sections above.  The call is followed statement by statement: the       *)
(* clone of the real Estado, every turn of the while loop, and the lines   *)
(* after the loop, which write to the real objects.                        *)
(***************************************************************************)

Indice(lista, x) == CHOOSE i \in 1..Len(lista) : lista[i] = x

\* the objects of the Simulador s: the Grafo at 1, the dict and the three
\* lists of the Estado at 2..5, the Estado at 6, then the vehicles and the
\* requests
Alocar(s) ==
    LET e == s.estado
        nv == Len(e.ordem)
        np == Len(e.pedidos_pendentes)
        na == Len(e.pedidos_ativos)
        pedidos == e.pedidos_pendentes \o e.pedidos_ativos \o e.pedidos_concluidos
        EndPedido(id) == IF id = NoneId THEN 0
                         ELSE 6 + nv + (CHOOSE j \in 1..Len(pedidos) : pedidos[j].id = id)
        EndVeiculo(id) == IF id = NoneId THEN 0 ELSE 6 + Indice(e.ordem, id)
    IN  << [classe |-> "Grafo"],
           [classe |-> "dict", chaves |-> e.ordem, itens |-> [i \in 1..nv |-> 6 + i]],
           [classe |-> "list", itens |-> [j \in 1..np |-> 6 + nv + j]],
           [classe |-> "list", itens |-> [j \in 1..na |-> 6 + nv + np + j]],
           [classe |-> "list",
            itens |-> [j \in 1..Len(e.pedidos_concluidos) |-> 6 + nv + np + na + j]],
           [classe |-> "Estado", timestamp |-> e.timestamp, veiculos |-> 2,
            pedidos_pendentes |-> 3, pedidos_ativos |-> 4, pedidos_concluidos |-> 5,
            grafo |-> 1] >>
        \o [i \in 1..nv |-> [classe |-> "Veiculo", campos |-> e.veiculos[e.ordem[i]],
                             pedido_atual |-> EndPedido(e.veiculos[e.ordem[i]].pedido_atual)]]
        \o [j \in 1..Len(pedidos) |->
               [classe |-> "Pedido", campos |-> pedidos[j],
                veiculo_atribuido |-> EndVeiculo(pedidos[j].veiculo_atribuido)]]

\* the attributes of the objects of a list
ValorLista(mem, lista) == [i \in 1..Len(mem[lista].itens) |-> mem[mem[lista].itens[i]].campos]

\* the Estado at the address e as the sections above write it
ValorEstado(mem, e) ==
    LET d == mem[mem[e].veiculos]
    IN  [timestamp |-> mem[e].timestamp,
         veiculos |-> [id \in Range(d.chaves) |-> mem[d.itens[Indice(d.chaves, id)]].campos],
         ordem |-> d.chaves,
         pedidos_pendentes |-> ValorLista(mem, mem[e].pedidos_pendentes),
         pedidos_ativos |-> ValorLista(mem, mem[e].pedidos_ativos),
         pedidos_concluidos |-> ValorLista(mem, mem[e].pedidos_concluidos)]

\* no copy: the object itself
SemCopia(mem, memo, x) == [mem |-> mem, memo |-> memo, y |-> x]

(***************************************************************************)
(* copy.deepcopy(x, memo): the copy y of x and of every object x reaches,  *)
(* an object reached twice being copied once.  The copy is entered in memo *)
(* before the objects it holds are copied.                                 *)
(***************************************************************************)
RECURSIVE deepcopy(_, _, _)
RECURSIVE DC_Itens(_, _, _, _, _)
deepcopy(mem, memo, x) ==
    IF x = 0 THEN [mem |-> mem, memo |-> memo, y |-> 0]
    ELSE IF x \in DOMAIN memo THEN [mem |-> mem, memo |-> memo, y |-> memo[x]]
    ELSE
    LET y == Len(mem) + 1
        m1 == Append(mem, mem[x])
        memo1 == memo @@ (x :> y)
    IN  IF mem[x].classe \in {"list", "dict"}
        THEN DC_Itens(m1, memo1, mem[x].itens, 1, y)
        ELSE IF mem[x].classe = "Veiculo"
        THEN LET r == deepcopy(m1, memo1, mem[x].pedido_atual)
             IN  [mem |-> [r.mem EXCEPT ![y].pedido_atual = r.y], memo |-> r.memo, y |-> y]
        ELSE LET r == deepcopy(m1, memo1, mem[x].veiculo_atribuido)
             IN  [mem |-> [r.mem EXCEPT ![y].veiculo_atribuido = r.y], memo |-> r.memo,
                  y |-> y]

\* the items itens[i..] of a list or dict copied into the copy at y
DC_Itens(mem, memo, itens, i, y) ==
    IF i > Len(itens) THEN [mem |-> mem, memo |-> memo, y |-> y]
    ELSE LET r == deepcopy(mem, memo, itens[i])
         IN  DC_Itens([r.mem EXCEPT ![y].itens[i] = r.y], r.memo, itens, i + 1, y)

\* Estado.clonar: four deepcopy calls, each with its own memo, and the same
\* Grafo
ClonarEstado(mem, e) ==
    LET r1 == deepcopy(mem, <<>>, mem[e].veiculos)
        r2 == deepcopy(r1.mem, <<>>, mem[e].pedidos_pendentes)
        r3 == deepcopy(r2.mem, <<>>, mem[e].pedidos_ativos)
        r4 == deepcopy(r3.mem, <<>>, mem[e].pedidos_concluidos)
    IN  [mem |-> Append(r4.mem,
                        [classe |-> "Estado", timestamp |-> mem[e].timestamp,
                         veiculos |-> r1.y, pedidos_pendentes |-> r2.y,
                         pedidos_ativos |-> r3.y, pedidos_concluidos |-> r4.y,
                         grafo |-> mem[e].grafo]),
         y |-> Len(r4.mem) + 1]

\* next(p for p in lista if p.id == id), 0 where there is none
PedidoDaLista(mem, lista, id) ==
    LET com == SelectSeq(mem[lista].itens, LAMBDA a : mem[a].campos.id = id)
    IN  IF com = <<>> THEN 0 ELSE com[1]

\* estado.veiculos[id]
VeiculoDoEstado(mem, e, id) ==
    mem[mem[e].veiculos].itens[Indice(mem[mem[e].veiculos].chaves, id)]

\* Estado.atribuir_pedido(pedido, veiculo) on the Estado at e
AtribuirPedidoEm(mem, e, pedido_end, veiculo_end) ==
    IF pedido_end \notin Range(mem[mem[e].pedidos_pendentes].itens) THEN mem
    ELSE IF ~veiculo_esta_disponivel(mem[veiculo_end].campos) THEN mem
    ELSE [mem EXCEPT
            ![mem[e].pedidos_pendentes].itens = SelectSeq(@, LAMBDA a : a # pedido_end),
            ![mem[e].pedidos_ativos].itens = Append(@, pedido_end),
            ![pedido_end] = [@ EXCEPT !.veiculo_atribuido = veiculo_end,
                                      !.campos = atribuir_veiculo(@, mem[veiculo_end].campos.id)],
            ![veiculo_end] = [@ EXCEPT !.pedido_atual = pedido_end,
                                       !.campos = iniciar_viagem(@, mem[pedido_end].campos,
                                                                 mem[pedido_end].campos.destino)]]

\* Estado.aplicar_acao(acao) on the Estado at e; acao names the request and
\* the vehicle by their addresses
AplicarAcaoEm(mem, e, acao) ==
    LET r == ClonarEstado(mem, e)
    IN  IF acao.tipo = "atribuir"
        THEN [mem |-> AtribuirPedidoEm(r.mem, r.y,
                          PedidoDaLista(r.mem, r.mem[r.y].pedidos_pendentes,
                                        mem[acao.pedido].campos.id),
                          VeiculoDoEstado(r.mem, r.y, mem[acao.veiculo].campos.id)),
              y |-> r.y]
        ELSE r

\* Estado.obter_acoes_possiveis on the Estado at e: the actions hold the
\* objects of e
AcoesPossiveisEm(mem, g, e) ==
    LET acoes == obter_acoes_possiveis(ValorEstado(mem, e), g)
    IN  [i \in 1..Len(acoes) |->
            [acoes[i] EXCEPT !.pedido = PedidoDaLista(mem, mem[e].pedidos_pendentes, @),
                             !.veiculo = VeiculoDoEstado(mem, e, @)]]

\* the lines before the loop: nothing to plan, or the clone of the real
\* Estado pushed on the heap
IniciarEm(m) ==
    IF \/ ValorEstado(m.mem, m.real).pedidos_pendentes = <<>>
       \/ obter_veiculos_disponiveis(ValorEstado(m.mem, m.real)) = <<>>
    THEN [m EXCEPT !.fase = "fim"]
    ELSE LET r == ClonarEstado(m.mem, m.real)
         IN  [m EXCEPT !.mem = r.mem,
                       !.queue = {[f |-> heuristica_estado(m.grafo, ValorEstado(r.mem, r.y)),
                                   g |-> 0, counter |-> 0, estado |-> r.y,
                                   caminho |-> <<>>]},
                       !.fase = "procura"]

\* the for loop over acoes_possiveis[i..]: a new Estado pushed per action
RECURSIVE SucessoresEm(_, _, _, _)
SucessoresEm(m, atual, acoes, i) ==
    IF i > Len(acoes) THEN m
    ELSE
    LET r == AplicarAcaoEm(m.mem, atual.estado, acoes[i])
        novo_g == atual.g + acoes[i].distancia_estimada * EscalaH
        novo_h == heuristica_estado(m.grafo, ValorEstado(r.mem, r.y))
    IN  SucessoresEm([m EXCEPT !.mem = r.mem,
                               !.counter = @ + 1,
                               !.queue = @ \cup {[f |-> SomaH(novo_g, novo_h), g |-> novo_g,
                                                  counter |-> m.counter + 1,
                                                  estado |-> r.y,
                                                  caminho |-> Append(atual.caminho,
                                                                     acoes[i])]}],
                     atual, acoes, i + 1)

\* the entry atual is popped: one turn of the while loop
IterarCom(m, atual, acoes_possiveis) ==
    IF m.mem[m.mem[atual.estado].pedidos_pendentes].itens = <<>>
    THEN [m EXCEPT !.melhor_caminho = atual.caminho, !.fase = "cometer"]
    ELSE IF acoes_possiveis = <<>>
    THEN IF atual.f < m.melhor_f
         THEN [m EXCEPT !.melhor_f = atual.f, !.melhor_caminho = atual.caminho]
         ELSE m
    ELSE SucessoresEm(m, atual, acoes_possiveis, 1)

\* the test of the while loop and one turn of it
IterarEm(m) ==
    IF m.queue = {} \/ m.iteracoes >= MAX_ITERACOES THEN [m EXCEPT !.fase = "cometer"]
    ELSE IterarCom([m EXCEPT !.queue = @ \ {PA_Pop(m.queue)}, !.iteracoes = @ + 1],
                   PA_Pop(m.queue),
                   AcoesPossiveisEm(m.mem, m.grafo, PA_Pop(m.queue).estado))

\* definir_rota on the real vehicle, if the route to the pickup was found
RotaEm(mem, veiculo_real, rota_pickup) ==
    IF rota_pickup.sucesso
    THEN [mem EXCEPT ![veiculo_real].campos = definir_rota(@, rota_pickup.caminho)]
    ELSE mem

\* the lines after the loop, from the real request and the real vehicle
CometerCom(m, pedido_real, veiculo_real) ==
    LET origem == m.mem[pedido_real].campos.origem
        mem1 == [m.mem EXCEPT ![veiculo_real].campos =
                    [@ EXCEPT !.em_missao_recarga = FALSE, !.destino_atual = origem]]
        mem2 == [AtribuirPedidoEm(mem1, m.real, pedido_real, veiculo_real)
                    EXCEPT ![veiculo_real].campos.estado = A_CAMINHO]
    IN  RotaEm(mem2, veiculo_real,
               Algoritmo(m, m.mem[veiculo_real].campos.localizacao, origem))

\* the lines after the loop: the first action of melhor_caminho, if there is
\* one, on the real objects of the same ids
CometerEm(m) ==
    IF m.melhor_caminho = <<>> THEN [m EXCEPT !.fase = "fim"]
    ELSE [m EXCEPT !.fase = "fim",
                   !.mem = CometerCom(m,
                       PedidoDaLista(m.mem, m.mem[m.real].pedidos_pendentes,
                                     m.mem[m.melhor_caminho[1].pedido].campos.id),
                       VeiculoDoEstado(m.mem, m.real,
                                       m.mem[m.melhor_caminho[1].veiculo].campos.id))]

\* three vehicles free at A and four requests, created one after the other
\* before the first step; every vehicle can take every request
MaisPedidosQueVeiculos ==
    {ComPedido(ComPedido(ComPedido(ComPedido(
         FrotaDe(Simulador(DadosCidade, [i \in Range(OrdemFrota) |-> "A"]), ordem),
         "B", "C", 1, FALSE, INDIFERENTE), "D", "A", 1, FALSE, INDIFERENTE),
         "C", "D", 1, premium, INDIFERENTE), "B", "A", 1, FALSE, INDIFERENTE) :
        ordem \in {<<"T_E1", "T_C1", "V_E1">>, <<"T_E2", "T_C2", "V_C1">>},
        premium \in BOOLEAN}

\* the plans of the model: the whole fleet free at A and two requests, and
\* what the steps of the simulator make of them; and more requests than
\* vehicles
SimuladoresMemoria ==
    LET inicio == {ComPedido(
                       ComPedido(Simulador(DadosCidade, [i \in Range(OrdemFrota) |-> "A"]),
                                 v.origem, v.premium, num_passageiros, TRUE, INDIFERENTE),
                       v.origem, v.normal, 1, FALSE, INDIFERENTE) :
                      v \in ViagensPremium, num_passageiros \in {1, 5}}
        depois(S) == {correr_passo(s, NoSorteio, s.tempo_atual + 60) : s \in S}
    IN  inicio \cup depois(inicio) \cup depois(depois(inicio)) \cup MaisPedidosQueVeiculos

\* correr_passo has come to the call of processar_atribuicoes_inteligente
InitMemoria ==
    /\ GrafoParado /\ PedidoParado /\ EstacaoParada
    /\ sim = None /\ relogio = None /\ ultimo = None /\ gemeo = None
    /\ \E s0 \in SimuladoresMemoria :
        LET s == AteAoPlano(s0, NoSorteio, s0.tempo_atual + 60)
        IN  memoria = [grafo |-> s.grafo, mem |-> Alocar(s), real |-> 6, fase |-> "inicio",
                       queue |-> {}, counter |-> 0, iteracoes |-> 0,
                       melhor_caminho |-> <<>>, melhor_f |-> InfH,
                       antes |-> s.estado]

Iniciar ==
    /\ memoria.fase = "inicio"
    /\ memoria' = IniciarEm(memoria)
    /\ UNCHANGED <<vars_grafo, vars_pedido, vars_estacao, vars_sim, vars_gemeo>>

Iterar ==
    /\ memoria.fase = "procura"
    /\ memoria' = IterarEm(memoria)
    /\ UNCHANGED <<vars_grafo, vars_pedido, vars_estacao, vars_sim, vars_gemeo>>

Cometer ==
    /\ memoria.fase = "cometer"
    /\ memoria' = CometerEm(memoria)
    /\ UNCHANGED <<vars_grafo, vars_pedido, vars_estacao, vars_sim, vars_gemeo>>

NextMemoria == Iniciar \/ Iterar \/ Cometer

SpecMemoria == InitMemoria /\ [][NextMemoria]_vars

\* the Estado objects of the call: the real one and those on the heap
Raizes(m) == {m.real} \cup {q.estado : q \in m.queue}

\* depois is antes with the request p assigned to the vehicle v and nothing
\* else changed but the route and destination of v
SoUmaAtribuicao(antes, depois, p, v) ==
    /\ depois.timestamp = antes.timestamp
    /\ depois.ordem = antes.ordem
    /\ TemPedido(antes.pedidos_pendentes, p)
    /\ depois.pedidos_pendentes = RemoverPedido(antes.pedidos_pendentes, p)
    /\ depois.pedidos_concluidos = antes.pedidos_concluidos
    /\ depois.pedidos_ativos =
           Append(antes.pedidos_ativos,
                  [ObterPedido(antes.pedidos_pendentes, p)
                      EXCEPT !.veiculo_atribuido = v, !.estado = ATRIBUIDO])
    /\ \A id \in Range(antes.ordem) \ {v} : depois.veiculos[id] = antes.veiculos[id]
    /\ antes.veiculos[v].estado = DISPONIVEL
    /\ depois.veiculos[v].pedido_atual = p
    /\ \A c \in DOMAIN antes.veiculos[v] \ {"estado", "pedido_atual", "destino_atual",
                                            "passageiros_atuais", "em_missao_recarga",
                                            "rota_atual", "proximo_no_index",
                                            "progresso_aresta"} :
            depois.veiculos[v][c] = antes.veiculos[v][c]

\* the real Estado after the call so far: as before it, or after the lines
\* that follow the loop with one assignment more
RealDepois(m) ==
    IF m.fase = "fim" /\ m.melhor_caminho # <<>>
    THEN SoUmaAtribuicao(m.antes, ValorEstado(m.mem, m.real),
                         m.mem[m.melhor_caminho[1].pedido].campos.id,
                         m.mem[m.melhor_caminho[1].veiculo].campos.id)
    ELSE ValorEstado(m.mem, m.real) = m.antes

\* C21: no statement of the search changes the real Estado or an Estado that
\* is on the heap (the Estado aplicar_acao is called on is one of them): its
\* vehicles and its three lists of requests are after the statement what
\* they were before it.  When the call returns, the real Estado is what it
\* was before the call but for the one assignment of the first action of
\* the plan.
C21_ProcuraNaoMexeNoEstadoReal ==
    [][/\ \A r \in Raizes(memoria) :
            (r = memoria.real /\ memoria.fase = "cometer")
            \/ ValorEstado(memoria'.mem, r) = ValorEstado(memoria.mem, r)
       /\ RealDepois(memoria')]_vars

\* the call has returned after assigning a request, from a real Estado that
\* had a request under way, and has left on the heap an Estado where another
\* vehicle took the request
C21_Witness ==
    /\ memoria # None
    /\ memoria.fase = "fim"
    /\ memoria.melhor_caminho # <<>>
    /\ memoria.antes.pedidos_ativos # <<>>
    /\ ValorEstado(memoria.mem, memoria.real) # memoria.antes
    /\ \E q \in memoria.queue :
        /\ Len(ValorEstado(memoria.mem, q.estado).pedidos_ativos)
               = Len(ValorEstado(memoria.mem, memoria.real).pedidos_ativos)
        /\ ValorEstado(memoria.mem, q.estado).pedidos_ativos
               # ValorEstado(memoria.mem, memoria.real).pedidos_ativos

\* C22: a search that ends on its limit of MAX_ITERACOES turns, from a real
\* Estado where some available vehicle can take some pending request, still
\* assigns a request: the call returns with one request more under way.
C22_CometeNoLimite ==
    (/\ memoria # None
     /\ memoria.fase = "fim"
     /\ memoria.iteracoes >= MAX_ITERACOES
     /\ obter_acoes_possiveis(memoria.antes, memoria.grafo) # <<>>)
    => Len(ValorEstado(memoria.mem, memoria.real).pedidos_ativos)
           = Len(memoria.antes.pedidos_ativos) + 1

-----------------------------------------------------------------------------
(***************************************************************************)
(* The planner before a request that asks for more seats than a vehicle of *)
(* the fleet has, next to a request of one passenger.  The fleet is the    *)
(* whole fleet or its two taxis of four seats (estado.veiculos cleared and *)
(* refilled); the large request is for 5 passengers, which the two TaxiXL  *)
(* of the whole fleet can take, or for 7, which no vehicle can.            *)
(***************************************************************************)

MaxPassosInviavel == 2

OrdemTaxis == <<"T_E1", "T_C1">>

InitInviavel ==
    /\ GrafoParado /\ PedidoParado /\ EstacaoParada /\ gemeo = None /\ memoria = None
    /\ \E v \in ViagensPremium, ordem \in {OrdemFrota, OrdemTaxis},
          num_passageiros \in {5, 7}, primeiro \in BOOLEAN :
        sim = ComPedido(
                  ComPedido(FrotaDe(Simulador(DadosCidade, [i \in Range(OrdemFrota) |-> "A"]),
                                    ordem),
                            v.origem, IF primeiro THEN v.premium ELSE v.normal,
                            IF primeiro THEN num_passageiros ELSE 1, FALSE, INDIFERENTE),
                  v.origem, IF primeiro THEN v.normal ELSE v.premium,
                  IF primeiro THEN 1 ELSE num_passageiros, FALSE, INDIFERENTE)
    /\ relogio = [agora |-> 0, intervalo |-> 60]
    /\ ultimo = SemPasso

PassoInviavel == Passo({NoSorteio}, MaxPassosInviavel)

NextInviavel == PassoInviavel

SpecInviavel == InitInviavel /\ [][NextInviavel]_vars

\* the pending requests of the Simulador s that an action names
PedidosComAcao(s) ==
    {obter_acoes_possiveis(s.estado, s.grafo)[i].pedido :
        i \in 1..Len(obter_acoes_possiveis(s.estado, s.grafo))}

\* s is at the call of the planner with a pending request that no available
\* vehicle can take and another that one can
UmInviavelOutroNao(s) ==
    /\ PedidosComAcao(s) # {}
    /\ IdsDe(s.estado.pedidos_pendentes) \ PedidosComAcao(s) # {}

\* C23: a step whose planner is called with a pending request that no
\* available vehicle can take, and with another pending request that some
\* available vehicle can take, assigns a request.
C23_InviavelNaoBloqueia ==
    [][UmInviavelOutroNao(AteAoPlano(sim, NoSorteio, relogio.agora + relogio.intervalo))
       => /\ ultimo'.plano # <<>>
          /\ IdsDe(sim'.estado.pedidos_ativos) \ IdsDe(sim.estado.pedidos_ativos) # {}]_vars

-----------------------------------------------------------------------------
(***************************************************************************)
(* The planner before vehicles that cannot take every request: the whole   *)
(* fleet at A with full ranges or with ranges of 8% (20, 32, 16 and 28 km, *)
(* short of 1.2 times the longer trips), a request for 1 or 5 passengers   *)
(* that takes any vehicle or electric ones only, and a second request for  *)
(* the 12 km from A over B and back.                                       *)
(***************************************************************************)

MaxPassosAcoes == 2

BateriasAcoes ==
    {[id \in Range(OrdemFrota) |-> 100],
     [id \in Range(OrdemFrota) |-> 8],
     [id \in Range(OrdemFrota) |-> IF id \in {"T_E1", "V_E1"} THEN 8 ELSE 100]}

ViagensAcoes == {<<"B", "C">>, <<"D", "A">>, <<"D", "C">>, <<"B", "A">>}

InitAcoes ==
    /\ GrafoParado /\ PedidoParado /\ EstacaoParada /\ gemeo = None /\ memoria = None
    /\ \E percentagens \in BateriasAcoes, v \in ViagensAcoes, num_passageiros \in {1, 5},
          preferencia_ambiental \in {INDIFERENTE, APENAS_ELETRICO} :
        sim = ComPedido(
                  ComPedido(ComBaterias(Simulador(DadosCidade,
                                                  [i \in Range(OrdemFrota) |-> "A"]),
                                        percentagens),
                            v[1], v[2], num_passageiros, FALSE, preferencia_ambiental),
                  "B", "A", 1, FALSE, INDIFERENTE)
    /\ relogio = [agora |-> 0, intervalo |-> 60]
    /\ ultimo = SemPasso

PassoAcoes == Passo({NoSorteio}, MaxPassosAcoes)

NextAcoes == PassoAcoes

SpecAcoes == InitAcoes /\ [][NextAcoes]_vars

\* the km from the vehicle v to the pickup of p and on to its destination,
\* in a straight line
DistanciaTotal(g, v, p) ==
    distancia_euclidiana(g, v.localizacao, p.origem)
    + distancia_euclidiana(g, p.origem, p.destino)

\* the four conditions on the vehicle v and the request p
PodeLevar(g, v, p) ==
    /\ v.estado = DISPONIVEL
    /\ v.capacidade >= p.num_passageiros
    /\ 10 * v.autonomia_atual >= 12 * 10 * DistanciaTotal(g, v, p)
    /\ p.preferencia_ambiental = APENAS_ELETRICO => v.tipo = ELETRICO

\* the planner is called on s and the step leaves depois: every action is
\* of a pair that meets the conditions in s, and so is every request that
\* is under way in depois and was pending in s, with its vehicle
AcoesEAtribuicoesValidas(s, depois) ==
    /\ \A i \in 1..Len(obter_acoes_possiveis(s.estado, s.grafo)) :
        PodeLevar(s.grafo,
                  s.estado.veiculos[obter_acoes_possiveis(s.estado, s.grafo)[i].veiculo],
                  ObterPedido(s.estado.pedidos_pendentes,
                              obter_acoes_possiveis(s.estado, s.grafo)[i].pedido))
    /\ \A j \in 1..Len(depois.estado.pedidos_ativos) :
        TemPedido(s.estado.pedidos_pendentes, depois.estado.pedidos_ativos[j].id)
        => PodeLevar(s.grafo,
                     s.estado.veiculos[depois.estado.pedidos_ativos[j].veiculo_atribuido],
                     ObterPedido(s.estado.pedidos_pendentes,
                                 depois.estado.pedidos_ativos[j].id))

\* C24: in every step, each action obter_acoes_possiveis gives the planner
\* pairs a pending request with a vehicle that is available, has the seats,
\* has a range of at least 1.2 times the straight-line distance to the
\* pickup and on to the destination, and is electric if the request takes
\* electric vehicles only; and the request the step assigns is assigned to
\* a vehicle that met the four conditions when the planner was called.
C24_SoAcoesValidas ==
    [][AcoesEAtribuicoesValidas(AteAoPlano(sim, NoSorteio, relogio.agora + relogio.intervalo),
                                sim')]_vars

\* a step has assigned a request for which some vehicle has the seats but
\* not the range, and another the range but not the seats or the motor
C24_Witness ==
    /\ sim # None
    /\ ultimo.plano # <<>>
    /\ TemPedido(sim.estado.pedidos_ativos, ultimo.plano[1].pedido)
    /\ LET p == ObterPedido(sim.estado.pedidos_ativos, ultimo.plano[1].pedido)
       IN  /\ p.veiculo_atribuido = ultimo.plano[1].veiculo
           /\ \E id \in Range(sim.estado.ordem) :
                /\ sim.estado.veiculos[id].capacidade >= p.num_passageiros
                /\ sim.estado.veiculos[id].autonomia_atual
                       < 12 * DistanciaTotal(sim.grafo, sim.estado.veiculos[id], p)
           /\ \E id \in Range(sim.estado.ordem) :
                /\ sim.estado.veiculos[id].autonomia_atual
                       >= 12 * DistanciaTotal(sim.grafo, sim.estado.veiculos[id], p)
                /\ \/ sim.estado.veiculos[id].capacidade < p.num_passageiros
                   \/ /\ p.preferencia_ambiental = APENAS_ELETRICO
                      /\ sim.estado.veiculos[id].tipo = COMBUSTAO

-----------------------------------------------------------------------------
(***************************************************************************)
(* One vehicle and two requests made before the first step: the vehicle    *)
(* takes one and the other waits until the vehicle is free again, 46 steps *)
(* later when the first is the 6 km from B to A, 60 when it is the 8 km    *)
(* from C to A.  The second request leaves from D, 10 km and 15 minutes    *)
(* from A.                                                                 *)
(***************************************************************************)

MaxPassosEspera == 48

InitEspera ==
    /\ GrafoParado /\ PedidoParado /\ EstacaoParada /\ gemeo = None /\ memoria = None
    /\ \E id \in {"T_E1", "T_C1", "V_C1"}, origem \in {"B", "C"}, destino \in {"B", "C"},
          premium \in BOOLEAN :
        sim = ComPedido(
                  ComPedido(FrotaDe(Simulador(DadosCidade, [i \in Range(OrdemFrota) |-> "A"]),
                                    <<id>>),
                            origem, "A", 1, FALSE, INDIFERENTE),
                  "D", destino, 1, premium, INDIFERENTE)
    /\ relogio = [agora |-> 0, intervalo |-> 60]
    /\ ultimo = SemPasso

PassoEspera == Passo({NoSorteio}, MaxPassosEspera)

NextEspera == PassoEspera

SpecEspera == InitEspera /\ [][NextEspera]_vars

\* the seconds the request p has waited on the clock of the Simulador s,
\* and the seconds from the vehicle v to its pickup at 40 km/h
EsperaComRecolha(s, v, p) ==
    (s.tempo_atual - p.timestamp)
    + 90 * distancia_euclidiana(s.grafo, v.localizacao, p.origem)

\* every action the planner gets in s is for a vehicle that reaches the
\* pickup within the maximum wait of the request
AcoesDentroDaEspera(s) ==
    \A i \in 1..Len(obter_acoes_possiveis(s.estado, s.grafo)) :
        EsperaComRecolha(s,
            s.estado.veiculos[obter_acoes_possiveis(s.estado, s.grafo)[i].veiculo],
            ObterPedido(s.estado.pedidos_pendentes,
                        obter_acoes_possiveis(s.estado, s.grafo)[i].pedido))
        <= 60 * ObterPedido(s.estado.pedidos_pendentes,
                            obter_acoes_possiveis(s.estado, s.grafo)[i].pedido).tempo_espera_maximo

\* C25: in every step, the planner gets an action for a pending request
\* only if the time the request has waited at the clock of the simulation,
\* plus the time of the vehicle to the pickup (straight line at 40 km/h),
\* is within the maximum wait of the request.
C25_AcoesDentroDaEspera ==
    [][/\ sim'.tempo_atual = sim.tempo_atual + 60
       /\ AcoesDentroDaEspera(AteAoPlano(sim, NoSorteio, relogio.agora + relogio.intervalo))]_vars

-----------------------------------------------------------------------------
\* the request p has waited its maximum wait or more at the time t
EsperaEsgotada(p, t) == t - p.timestamp >= 60 * p.tempo_espera_maximo

\* the ids of the pending requests of s that have waited their maximum
IdsEsgotados(s) ==
    {s.estado.pedidos_pendentes[i].id : i \in
        {j \in 1..Len(s.estado.pedidos_pendentes) :
            EsperaEsgotada(s.estado.pedidos_pendentes[j], s.tempo_atual)}}

\* antes is the Simulador when atualizar_prioridades_pedidos is called and
\* depois when it returns; removidos are the requests it took out
ExpiradosForaDaFila(antes, depois, removidos) ==
    /\ IdsEsgotados(depois) = {}
    /\ \A id \in IdsEsgotados(antes) :
        /\ ~TemPedido(depois.estado.pedidos_pendentes, id)
        /\ ~TemPedido(depois.estado.pedidos_ativos, id)
        /\ \E i \in 1..Len(removidos) :
            removidos[i].id = id /\ removidos[i].estado = EXPIRADO
    /\ depois.metricas.pedidos_expirados
           = antes.metricas.pedidos_expirados + Cardinality(IdsEsgotados(antes))

\* C26: in every step, when atualizar_prioridades_pedidos returns no
\* request is left in the pending list that has waited 100% of its maximum
\* wait or more: each such request is EXPIRADO, out of the pending list, and
\* pedidos_expirados has grown by one for it; the rest of the step neither
\* counts it again nor puts it back.
C26_ExpiradosForaDaFila ==
    [][/\ ExpiradosForaDaFila([sim EXCEPT !.tempo_atual = @ + 60],
                              atualizar_prioridades_pedidos([sim EXCEPT !.tempo_atual = @ + 60]),
                              ultimo'.expirados)
       /\ sim'.metricas.pedidos_expirados
              = sim.metricas.pedidos_expirados
                + Cardinality(IdsEsgotados([sim EXCEPT !.tempo_atual = @ + 60]))
       /\ \A id \in IdsEsgotados([sim EXCEPT !.tempo_atual = @ + 60]) :
              ~TemPedido(sim'.estado.pedidos_pendentes, id)]_vars

\* a step has expired a request and counted it, and another request is
\* still waiting
C26_Witness ==
    /\ sim # None
    /\ Len(ultimo.expirados) = 1
    /\ ultimo.expirados[1].estado = EXPIRADO
    /\ sim.metricas.pedidos_expirados = 1
    /\ Len(sim.estado.pedidos_pendentes) = 1
    /\ sim.estado.pedidos_pendentes[1].id # ultimo.expirados[1].id

-----------------------------------------------------------------------------
\* the vehicles of the Simulador s in EM_RECARGA or EM_ABASTECIMENTO at the
\* node no
EmServicoNoNo(s, no) ==
    {id \in Range(s.estado.ordem) :
        /\ s.estado.veiculos[id].estado \in {EM_RECARGA, EM_ABASTECIMENTO}
        /\ s.estado.veiculos[id].localizacao = no}

\* C27: after every step, the vehicles in EM_RECARGA or EM_ABASTECIMENTO at
\* a station node are no more than the capacidade_recarga of the node: a
\* vehicle that arrives at a station with every place taken waits instead
\* of starting its service.
C27_NuncaAcimaDaCapacidadeDoNo ==
    sim # None =>
        \A i \in 1..Len(sim.grafo.nos) :
            sim.grafo.nos[i].tipo \in {"estacao_recarga", "posto_abastecimento"}
            => Cardinality(EmServicoNoNo(sim, sim.grafo.nos[i].id))
                   <= sim.grafo.nos[i].capacidade_recarga

-----------------------------------------------------------------------------
(***************************************************************************)
(* The fleet with ranges under 30%, which the check at the end of the      *)
(* first step sends to the stations: 23 steps bring a vehicle from A to B, *)
(* 38 from A to C or from D to B.                                          *)
(***************************************************************************)

MaxPassosMissao == 42

BateriasMissao ==
    {[id \in Range(OrdemFrota) |-> 20],
     [id \in Range(OrdemFrota) |-> IF id = "T_E1" THEN 10 ELSE 20],
     [id \in Range(OrdemFrota) |-> IF id \in {"T_E2", "V_C1"} THEN 10 ELSE 100],
     [id \in Range(OrdemFrota) |-> IF id = "T_C1" THEN 14 ELSE 25]}

InitMissao ==
    /\ GrafoParado /\ PedidoParado /\ EstacaoParada /\ gemeo = None /\ memoria = None
    /\ \E colocacao \in Colocacoes, percentagens \in BateriasMissao :
        sim = ComBaterias(Simulador(DadosCidade, colocacao), percentagens)
    /\ relogio = [agora |-> 0, intervalo |-> 60]
    /\ ultimo = SemPasso

PassoMissao == Passo({NoSorteio}, MaxPassosMissao)

NextMissao == PassoMissao

\* the loop of main.py runs a step whenever one can run
SpecMissao == InitMissao /\ [][NextMissao]_vars /\ WF_relogio(Tique(MaxPassosMissao))

\* recarregar_veiculo has sent the vehicle id on the route the search gave
EmMissaoDeRecarga(s, id) ==
    /\ s.estado.veiculos[id].estado = A_CAMINHO
    /\ s.estado.veiculos[id].em_missao_recarga
    /\ Len(s.estado.veiculos[id].rota_atual) > 1

\* the vehicle id is at the station of its kind, being served
EmServicoNaEstacao(s, id) ==
    /\ s.estado.veiculos[id].estado \in {EM_RECARGA, EM_ABASTECIMENTO}
    /\ ObterNo(s.grafo, s.estado.veiculos[id].localizacao).tipo
           = TipoEstacaoDe(s.estado.veiculos[id])

\* C28: every vehicle that recarregar_veiculo has sent to a station on a
\* route of the search arrives at the station and is put in EM_RECARGA or
\* EM_ABASTECIMENTO as the steps go on, whatever its range when it was sent,
\* under 15% included.
C28_ChegaAEstacao ==
    \A id \in Range(OrdemFrota) :
        (sim # None /\ EmMissaoDeRecarga(sim, id)) ~> (sim # None /\ EmServicoNaEstacao(sim, id))

-----------------------------------------------------------------------------
(***************************************************************************)
(* atualizar_posicao on its own: one vehicle on a map with a road of 0 km  *)
(* between A and B, roads of 6 km from B to C and of 10 km from A to D,    *)
(* and no road between C and D, given routes that cross the road of 0 km   *)
(* or the missing road eleven times, and updates of 0.05, 0.4, 1 and 10    *)
(* minutes, of none and of less than none.  relogio counts the updates.    *)
(***************************************************************************)

MaxAtualizacoes == 4

DadosDegenerados ==
    [direcional |-> FALSE,
     nos |-> DadosCidade.nos,
     arestas |-> << Estrada("A", "B", 0), Estrada("B", "C", 6), Estrada("A", "D", 10) >>]

RotasPosicao ==
    {<<"A", "B", "A", "B", "A", "B", "A", "B", "A", "B", "A", "B", "C">>,
     <<"C", "D", "C", "D", "C", "D", "C", "D", "C", "D", "C", "D">>,
     <<"A", "B", "C", "B">>,
     <<"B", "C", "D">>,
     <<"A", "D", "A", "B">>,
     <<"A">>}

\* passo_tempo_min, in hundredths of a minute
PassosDeTempo == {5, 40, 100, 1000, 0, -40}

SemAtualizacao == [passo_tempo_min |-> 0, chegou |-> FALSE, excecao |-> NoneId]

InitPosicao ==
    /\ GrafoParado /\ PedidoParado /\ EstacaoParada /\ gemeo = None /\ memoria = None
    /\ \E rota \in RotasPosicao :
        sim = [FrotaDe(Simulador(DadosDegenerados, [i \in Range(OrdemFrota) |-> rota[1]]),
                       <<"T_E1">>)
               EXCEPT !.estado.veiculos["T_E1"] = definir_rota(@, rota)]
    /\ relogio = [agora |-> 0, intervalo |-> 1]
    /\ ultimo = SemAtualizacao

\* veiculo.atualizar_posicao(grafo, passo_tempo_min)
AtualizarPosicao ==
    /\ ultimo.excecao = NoneId
    /\ relogio.agora < MaxAtualizacoes
    /\ \E passo_tempo_min \in PassosDeTempo :
        /\ sim' = [sim EXCEPT !.estado.veiculos["T_E1"] =
                       atualizar_posicao(@, sim.grafo, passo_tempo_min).veiculo]
        /\ ultimo' = [passo_tempo_min |-> passo_tempo_min,
                      chegou |-> atualizar_posicao(sim.estado.veiculos["T_E1"], sim.grafo,
                                                   passo_tempo_min).chegou,
                      excecao |-> atualizar_posicao(sim.estado.veiculos["T_E1"], sim.grafo,
                                                    passo_tempo_min).excecao]
    /\ relogio' = [relogio EXCEPT !.agora = @ + 1]
    /\ UNCHANGED fora_do_sim

NextPosicao == AtualizarPosicao

SpecPosicao == InitPosicao /\ [][NextPosicao]_vars

\* the time of edge k of rota (from its node k to its node k + 1), floor
\* included, in hundredths of a minute
TempoDaAresta(g, rota, k) ==
    IF ~TemAresta(g.arestas, rota[k], rota[k + 1]) THEN 1
    ELSE IF tempo_atual(ObterAresta(g.arestas, rota[k], rota[k + 1])) * 100 < 1 THEN 1
    ELSE tempo_atual(ObterAresta(g.arestas, rota[k], rota[k + 1])) * 100

\* the time from the start of rota to the point progresso into edge indice
RECURSIVE TempoAte(_, _, _, _)
TempoAte(g, rota, indice, progresso) ==
    IF indice <= 1 THEN progresso
    ELSE TempoDaAresta(g, rota, indice - 1) + TempoAte(g, rota, indice - 1, progresso)

\* the time the update from the vehicle antes to the vehicle depois used
TempoConsumido(g, antes, depois) ==
    TempoAte(g, antes.rota_atual, depois.proximo_no_index, depois.progresso_aresta)
    - TempoAte(g, antes.rota_atual, antes.proximo_no_index, antes.progresso_aresta)

\* what one update of passo_tempo_min may do to a vehicle
UmaAtualizacao(g, antes, depois, passo_tempo_min) ==
    /\ depois.proximo_no_index - antes.proximo_no_index \in 0..10
    /\ IF antes.rota_atual = <<>> THEN depois = antes
       ELSE /\ TempoConsumido(g, antes, depois) >= 0
            /\ TempoConsumido(g, antes, depois)
                   <= (IF passo_tempo_min > 0 THEN passo_tempo_min ELSE 0)
    /\ depois.progresso_aresta >= 0
    /\ IF depois.rota_atual = <<>> \/ depois.proximo_no_index >= Len(depois.rota_atual)
       THEN depois.progresso_aresta = 0
       ELSE depois.progresso_aresta
                < TempoDaAresta(g, depois.rota_atual, depois.proximo_no_index)

\* C29: in one call of atualizar_posicao the vehicle crosses at most 10
\* edges of its route, the travel time it uses is at least 0 and at most
\* the passo_tempo_min of the call, and its progress on the current edge is
\* at least 0 and less than the whole edge.
C29_UmaAtualizacao ==
    [][UmaAtualizacao(sim.grafo, sim.estado.veiculos["T_E1"],
                      sim'.estado.veiculos["T_E1"], ultimo'.passo_tempo_min)]_vars

\* the first update has crossed ten edges of no length and stopped there,
\* short of the end of the route and with most of its 0.4 minutes left
C29_Witness ==
    /\ sim # None
    /\ relogio.agora = 1
    /\ ultimo.passo_tempo_min = 40
    /\ ~ultimo.chegou
    /\ sim.estado.veiculos["T_E1"].proximo_no_index = 11
    /\ sim.estado.veiculos["T_E1"].progresso_aresta = 0
    /\ Len(sim.estado.veiculos["T_E1"].rota_atual) > 11

-----------------------------------------------------------------------------
(***************************************************************************)
(* The map with no road to D: the planner, which measures in a straight    *)
(* line, pairs a vehicle with a request that leaves from D, and the search *)
(* finds no route to the pickup.                                           *)
(***************************************************************************)

MaxPassosIlha == 4

DadosIlha ==
    [direcional |-> FALSE,
     nos |-> DadosCidade.nos,
     arestas |-> << Estrada("A", "B", 6), Estrada("A", "C", 10), Estrada("B", "C", 10) >>]

InitIlha ==
    /\ GrafoParado /\ PedidoParado /\ EstacaoParada /\ gemeo = None /\ memoria = None
    /\ \E ordem \in {OrdemFrota, OrdemTaxis}, origem \in {"D", "B"}, destino \in {"A", "C"},
          num_passageiros \in {1, 5}, premium \in BOOLEAN :
        sim = ComPedido(FrotaDe(Simulador(DadosIlha, [i \in Range(OrdemFrota) |-> "A"]),
                                ordem),
                        origem, destino, num_passageiros, premium, INDIFERENTE)
    /\ relogio = [agora |-> 0, intervalo |-> 60]
    /\ ultimo = SemPasso

PassoIlha == Passo({NoSorteio}, MaxPassosIlha)

NextIlha == PassoIlha

SpecIlha == InitIlha /\ [][NextIlha]_vars

\* the search finds no route from the vehicle of the action to the pickup
\* of its request, in the Simulador s
SemRotaDeRecolha(s, acao) ==
    ~Algoritmo(s, s.estado.veiculos[acao.veiculo].localizacao,
               ObterPedido(s.estado.pedidos_pendentes, acao.pedido).origem).sucesso

\* nothing is committed for the pair of the action in the Simulador s
NadaCometido(s, acao) ==
    /\ s.estado.veiculos[acao.veiculo].estado = DISPONIVEL
    /\ s.estado.veiculos[acao.veiculo].pedido_atual = NoneId
    /\ ~TemPedido(s.estado.pedidos_ativos, acao.pedido)
    /\ TemPedido(s.estado.pedidos_pendentes, acao.pedido)
    /\ ObterPedido(s.estado.pedidos_pendentes, acao.pedido).estado = PENDENTE
    /\ ObterPedido(s.estado.pedidos_pendentes, acao.pedido).veiculo_atribuido = NoneId

\* C30: when the search finds no route from the vehicle the planner chose
\* to the pickup of the request, the step commits nothing for the pair: at
\* the end of the step the vehicle is still available with no request and
\* the request still pending with no vehicle.
C30_SemRotaNadaCometido ==
    [][(/\ ultimo'.plano # <<>>
        /\ SemRotaDeRecolha(AteAoPlano(sim, NoSorteio, relogio.agora + relogio.intervalo),
                            ultimo'.plano[1]))
       => NadaCometido(sim', ultimo'.plano[1])]_vars

-----------------------------------------------------------------------------
(***************************************************************************)
(* Why the vehicle of C28 is not held back by the number of steps of       *)
(* SpecMissao: the vehicles sent with 15% of their range or more all reach *)
(* their stations within these steps, and a step leaves a vehicle that is  *)
(* on its way to a station with less than 15% exactly as it found it, so   *)
(* that every further step would do the same.                              *)
(***************************************************************************)

AbaixoDoCritico(s, id) ==
    100 * s.estado.veiculos[id].autonomia_atual < 15 * s.estado.veiculos[id].autonomia_max

EnviadoAcimaDoCritico(id) ==
    sim # None /\ EmMissaoDeRecarga(sim, id) /\ ~AbaixoDoCritico(sim, id)

AcimaDoCriticoChega ==
    \A id \in Range(OrdemFrota) :
        EnviadoAcimaDoCritico(id) ~> (sim # None /\ EmServicoNaEstacao(sim, id))

AbaixoDoCriticoParado ==
    [][\A id \in Range(OrdemFrota) :
        (EmMissaoDeRecarga(sim, id) /\ AbaixoDoCritico(sim, id))
        => sim'.estado.veiculos[id] = sim.estado.veiculos[id]]_vars

-----------------------------------------------------------------------------
(***************************************************************************)
(* Whole lives of vehicles and requests: one or two vehicles at A with     *)
(* full ranges, with 20% or with 14%, and two requests made before the     *)
(* first step, over enough steps for a trip (46 steps from A over B and    *)
(* back), for the way to a station after it (38 steps from A to C), for    *)
(* the service there, and for the requests nobody takes to expire.         *)
(***************************************************************************)

MaxPassosCiclo == 95

OrdensCiclo == {<<"T_C1">>, <<"T_E1", "T_C1">>}

InitCiclo ==
    /\ GrafoParado /\ PedidoParado /\ EstacaoParada /\ gemeo = None /\ memoria = None
    /\ \E ordem \in OrdensCiclo, percentagem \in {100, 20, 14}, premium \in BOOLEAN :
        sim = ComPedido(
                  ComPedido(
                      ComBaterias(
                          FrotaDe(Simulador(DadosCidade, [i \in Range(OrdemFrota) |-> "A"]),
                                  ordem),
                          [id \in Range(ordem) |-> percentagem]),
                      "B", "A", 1, FALSE, INDIFERENTE),
                  "D", "C", 1, premium, INDIFERENTE)
    /\ relogio = [agora |-> 0, intervalo |-> 60]
    /\ ultimo = SemPasso

PassoCiclo == Passo({NoSorteio}, MaxPassosCiclo)

NextCiclo == PassoCiclo

SpecCiclo == InitCiclo /\ [][NextCiclo]_vars

\* the request the vehicle v carries, in the Estado e
PedidoDoVeiculo(e, v) ==
    ObterPedido(e.pedidos_pendentes \o e.pedidos_ativos \o e.pedidos_concluidos,
                v.pedido_atual)

\* the planner: a vehicle keeps its state or goes from available to en route
\* with a request
TransicaoDoPlano(antes, depois) ==
    \/ depois.estado = antes.estado
    \/ /\ antes.estado = DISPONIVEL /\ depois.estado = A_CAMINHO
       /\ depois.pedido_atual # NoneId

\* the movement: arrival at the pickup, at the destination, at the station
\* of a recharge mission, and the end of the service at the station
TransicaoDoMovimento(s, antes, depois) ==
    \/ depois.estado = antes.estado
    \/ /\ antes.estado = A_CAMINHO /\ depois.estado = EM_SERVICO
       /\ ~antes.em_missao_recarga
       /\ depois.localizacao = PedidoDoVeiculo(s.estado, antes).origem
    \/ /\ antes.estado = EM_SERVICO /\ depois.estado = DISPONIVEL
       /\ depois.localizacao = PedidoDoVeiculo(s.estado, antes).destino
    \/ /\ antes.estado = A_CAMINHO /\ depois.estado \in {EM_RECARGA, EM_ABASTECIMENTO}
       /\ antes.em_missao_recarga
       /\ ObterNo(s.grafo, depois.localizacao).tipo = TipoEstacaoDe(depois)
    \/ /\ antes.estado \in {EM_RECARGA, EM_ABASTECIMENTO} /\ depois.estado = DISPONIVEL
       /\ depois.autonomia_atual = depois.autonomia_max

\* the check of the batteries: an available vehicle is sent to a station;
\* a vehicle en route or in service under 15% is made available, and may
\* be sent to a station at once
TransicaoDaVerificacao(antes, depois) ==
    \/ depois.estado = antes.estado /\ depois.pedido_atual = antes.pedido_atual
    \/ /\ antes.estado = DISPONIVEL /\ depois.estado = A_CAMINHO
       /\ depois.em_missao_recarga /\ depois.pedido_atual = NoneId
    \/ /\ antes.estado \in {A_CAMINHO, EM_SERVICO}
       /\ 100 * antes.autonomia_atual < 15 * antes.autonomia_max
       /\ depois.pedido_atual = NoneId
       /\ \/ depois.estado = DISPONIVEL
          \/ depois.estado = A_CAMINHO /\ depois.em_missao_recarga

\* the states of the vehicles through the phases of one step: s at its
\* start, s1 at the call of the planner, s2 after it, s3 after the movement
\* and s4 at the end
TransicoesDeVeiculos(s, s1, s2, s3, s4) ==
    \A id \in Range(s.estado.ordem) :
        /\ s1.estado.veiculos[id].estado = s.estado.veiculos[id].estado
        /\ TransicaoDoPlano(s1.estado.veiculos[id], s2.estado.veiculos[id])
        /\ TransicaoDoMovimento(s2, s2.estado.veiculos[id], s3.estado.veiculos[id])
        /\ TransicaoDaVerificacao(s3.estado.veiculos[id], s4.estado.veiculos[id])

-----------------------------------------------------------------------------
\* the requests of the three lists of the Simulador s
TodosOsPedidos(s) ==
    s.estado.pedidos_pendentes \o s.estado.pedidos_ativos \o s.estado.pedidos_concluidos

\* the change of state of a request in the phase fase of a step; critico
\* tells that the vehicle it was assigned to was under 15% of its range
TransicaoDePedido(fase, antes, depois, critico) ==
    \/ depois = antes
    \/ fase = "plano" /\ antes = PENDENTE /\ depois = ATRIBUIDO
    \/ fase = "movimento" /\ antes = ATRIBUIDO /\ depois = EM_CURSO
    \/ fase = "movimento" /\ antes = EM_CURSO /\ depois = CONCLUIDO
    \/ fase = "verificacao" /\ antes \in {ATRIBUIDO, EM_CURSO} /\ depois = PENDENTE /\ critico

\* the vehicle of the request p of the Simulador s is under 15% of its range
VeiculoCritico(s, p) ==
    /\ p.veiculo_atribuido \in DOMAIN s.estado.veiculos
    /\ 100 * s.estado.veiculos[p.veiculo_atribuido].autonomia_atual
           < 15 * s.estado.veiculos[p.veiculo_atribuido].autonomia_max

\* every request of antes is in depois, changed as the phase may change it;
\* the requests in removidos are the pending ones that have left
FaseDePedidos(fase, antes, depois, removidos) ==
    \A i \in 1..Len(TodosOsPedidos(antes)) :
        IF TemPedido(TodosOsPedidos(depois), TodosOsPedidos(antes)[i].id)
        THEN TransicaoDePedido(fase, TodosOsPedidos(antes)[i].estado,
                               ObterPedido(TodosOsPedidos(depois),
                                           TodosOsPedidos(antes)[i].id).estado,
                               VeiculoCritico(antes, TodosOsPedidos(antes)[i]))
        ELSE /\ fase = "prioridades"
             /\ TodosOsPedidos(antes)[i].estado = PENDENTE
             /\ \E j \in 1..Len(removidos) :
                    /\ removidos[j].id = TodosOsPedidos(antes)[i].id
                    /\ removidos[j].estado = EXPIRADO

\* C32: in every step the state of a request changes only from pending to
\* assigned, from assigned to in progress, from in progress to completed,
\* from pending to expired, and from assigned or in progress back to
\* pending when the trip is aborted under 15% of the range; a request that
\* is completed, expired, cancelled or rejected keeps its state.
C32_TransicoesDePedidos ==
    [][/\ FaseDePedidos("prioridades", sim,
                        AteAoPlano(sim, ultimo'.sorteio, relogio'.agora), ultimo'.expirados)
       /\ FaseDePedidos("plano", AteAoPlano(sim, ultimo'.sorteio, relogio'.agora),
                        processar_atribuicoes_inteligente(
                            AteAoPlano(sim, ultimo'.sorteio, relogio'.agora)), <<>>)
       /\ FaseDePedidos("movimento",
                        processar_atribuicoes_inteligente(
                            AteAoPlano(sim, ultimo'.sorteio, relogio'.agora)),
                        AteAoMovimento(sim, ultimo'.sorteio, relogio'.agora), <<>>)
       /\ FaseDePedidos("verificacao", AteAoMovimento(sim, ultimo'.sorteio, relogio'.agora),
                        sim', <<>>)]_vars

\* one request is completed, by the vehicle that took it up again after an
\* aborted trip or first, while the other has expired
C32_Witness ==
    /\ sim # None
    /\ Len(sim.estado.pedidos_concluidos) = 1
    /\ sim.estado.pedidos_concluidos[1].estado = CONCLUIDO
    /\ sim.estado.pedidos_pendentes = <<>>
    /\ sim.estado.pedidos_ativos = <<>>
    /\ sim.metricas.pedidos_expirados = 1

-----------------------------------------------------------------------------
(***************************************************************************)
(* hill_climbing called with small iteration caps, on the graphs of the    *)
(* searches.                                                               *)
(***************************************************************************)

\* the max_iteracoes of the calls: the walk over four nodes has three moves
IteracoesCurtas == {0, 1, 2, 3, 4}

HillClimbingLimitado ==
    /\ resultado = None
    /\ \E par \in ParesConsulta, metrica \in Metricas, heuristica \in HeuristicasModelo,
          max_iteracoes \in IteracoesCurtas :
        resultado' = Chamada("hill_climbing", par[1], par[2], metrica, heuristica,
                             hill_climbing(grafo, par[1], par[2], metrica, heuristica,
                                           max_iteracoes))
    /\ UNCHANGED <<grafo, carregado, fora_do_grafo>>

NextIteracoes == HillClimbingLimitado

SpecIteracoes == InitProcura /\ [][NextIteracoes]_vars

\* the walk of the Resultado r ends at the node destino
ChegouAoDestino(r, destino) ==
    /\ r.caminho # <<>>
    /\ r.caminho[Len(r.caminho)] = destino

\* C33: hill_climbing reports success exactly when the walk it made reached
\* the destination, that is when the last node of the path it returns is
\* the destination; in every other case it reports failure.
C33_SucessoSseChegou ==
    (resultado # None /\ resultado.algoritmo = "hill_climbing")
    => (resultado.r.sucesso <=> ChegouAoDestino(resultado.r, resultado.destino))

-----------------------------------------------------------------------------
(***************************************************************************)
(* dfs_iterative_deepening on the graphs of the searches.                  *)
(***************************************************************************)

\* the max_profundidade of the calls: 50 is the default, and a path over
\* four nodes has at most three edges
ProfundidadesModelo == {1, 2, 3, 50}

DfsIterativeDeepening ==
    /\ resultado = None
    /\ \E par \in ParesConsulta, metrica \in Metricas,
          max_profundidade \in ProfundidadesModelo :
        resultado' = [algoritmo |-> "dfs_iterative_deepening", origem |-> par[1],
                      destino |-> par[2], metrica |-> metrica, heuristica |-> None,
                      max_profundidade |-> max_profundidade,
                      r |-> dfs_iterative_deepening(grafo, par[1], par[2], metrica,
                                                    max_profundidade)]
    /\ UNCHANGED <<grafo, carregado, fora_do_grafo>>

NextAprofundamento == DfsIterativeDeepening

SpecAprofundamento == InitProcura /\ [][NextAprofundamento]_vars

\* C34: whenever the destination can be reached from the origin in no more
\* than max_profundidade edges, dfs_iterative_deepening succeeds and the
\* path it returns has the least number of edges of all the paths from the
\* origin to the destination, as the path of bfs has.
C34_AprofundamentoMenosArestas ==
    ( /\ Chamou("dfs_iterative_deepening")
      /\ CustoMinimo(grafo, resultado.origem, resultado.destino, "arestas")
            <= resultado.max_profundidade )
    => /\ resultado.r.sucesso
       /\ CaminhoLiga
       /\ Len(resultado.r.caminho) - 1 =
            CustoMinimo(grafo, resultado.origem, resultado.destino, "arestas")

\* what does hold: a path is found whenever one exists with no more nodes
\* than the default limit allows
AprofundamentoCompletoSemLimite ==
    ( /\ Chamou("dfs_iterative_deepening")
      /\ resultado.max_profundidade = 50
      /\ CustoMinimo(grafo, resultado.origem, resultado.destino, "arestas") < Inf )
    => /\ resultado.r.sucesso
       /\ CaminhoLiga

-----------------------------------------------------------------------------
\* the vehicles that enter service between the Estacao antes and the
\* Estacao depois of one call
EntramEmServico(antes, depois) == EmAtendimento(depois) \ EmAtendimento(antes)

\* the vehicles of the queue of the Estacao e that the station serves: one
\* of another type is queued by a full station and is never admitted
RECURSIVE FilaCompativel(_, _, _)
FilaCompativel(e, vs, i) ==
    IF i > Len(e.fila_espera) THEN <<>>
    ELSE IF TipoCompativel(e, vs[e.fila_espera[i]])
    THEN <<e.fila_espera[i]>> \o FilaCompativel(e, vs, i + 1)
    ELSE FilaCompativel(e, vs, i + 1)

\* the vehicles that enter service were the first of the queue fila, in
\* its order, and none of them comes from outside a queue that has vehicles
PorOrdemDeChegada(antes, depois, fila) ==
    /\ \A i \in 1..Len(fila) :
            fila[i] \in EntramEmServico(antes, depois)
            => \A j \in 1..(i - 1) :
                    fila[j] \in EntramEmServico(antes, depois)
    /\ fila # <<>>
       => EntramEmServico(antes, depois) \subseteq Range(fila)

\* C35: the queue of a station is first in, first out: in every call the
\* vehicles that enter service from the queue are its first ones, in the
\* order in which they joined it, and a vehicle that asks for service
\* while others wait does not get a place ahead of them.
C35_FilaPorOrdemDeChegada ==
    [][PorOrdemDeChegada(estacao, estacao', FilaCompativel(estacao, veiculos, 1))]_vars

-----------------------------------------------------------------------------
\* the sum, street by street, of the costs of the path caminho from its
\* i-th node on, under the metric
RECURSIVE CustoDasArestas(_, _, _, _)
CustoDasArestas(g, caminho, metrica, i) ==
    IF i >= Len(caminho) THEN 0
    ELSE (IF metrica = "distancia"
          THEN (CHOOSE a \in Range(g.arestas) :
                    a.origem = caminho[i] /\ a.destino = caminho[i + 1]).distancia
          ELSE (CHOOSE a \in Range(g.arestas) :
                    a.origem = caminho[i] /\ a.destino = caminho[i + 1]).tempo_base
               * (CHOOSE a \in Range(g.arestas) :
                    a.origem = caminho[i] /\ a.destino = caminho[i + 1]).fator_transito)
         + CustoDasArestas(g, caminho, metrica, i + 1)

\* every two consecutive nodes of the path are joined by a street of the
\* graph in that direction
PorArestasDoGrafo(g, caminho) ==
    \A i \in 1..(Len(caminho) - 1) :
        \E a \in Range(g.arestas) : a.origem = caminho[i] /\ a.destino = caminho[i + 1]

\* C36: whenever one of the six searches reports success, the path it
\* returns starts at the origin, ends at the destination and follows
\* streets of the graph in their direction, and the cost it reports is the
\* sum of the costs of those streets under the metric of the call.
C36_CaminhoECustoCoerentes ==
    (resultado # None /\ resultado.r.sucesso)
    => /\ resultado.r.caminho # <<>>
       /\ resultado.r.caminho[1] = resultado.origem
       /\ resultado.r.caminho[Len(resultado.r.caminho)] = resultado.destino
       /\ PorArestasDoGrafo(grafo, resultado.r.caminho)
       /\ resultado.r.custo_total
            = CustoDasArestas(grafo, resultado.r.caminho, resultado.metrica, 1)

\* a search by time returned a path of two streets whose time is not their
\* length
C36_Witness ==
    /\ resultado # None
    /\ resultado.r.sucesso
    /\ resultado.metrica = "tempo"
    /\ Len(resultado.r.caminho) = 3
    /\ resultado.r.custo_total
         # CustoDasArestas(grafo, resultado.r.caminho, "distancia", 1)

-----------------------------------------------------------------------------
\* the vehicles of the Simulador s that are travelling on a route of a
\* single node
ComRotaDeUmNo(s) ==
    {id \in Range(s.estado.ordem) :
        /\ s.estado.veiculos[id].estado \in {A_CAMINHO, EM_SERVICO}
        /\ Len(s.estado.veiculos[id].rota_atual) = 1}

\* the movement update took the vehicle antes as arrived and left it as
\* depois: in service at the pickup, available at the destination, and in
\* its station when it was sent to one
DadoComoChegado(antes, depois) ==
    IF antes.em_missao_recarga
    THEN depois.estado \in {EM_RECARGA, EM_ABASTECIMENTO, DISPONIVEL}
    ELSE IF antes.estado = A_CAMINHO
    THEN depois.estado = EM_SERVICO
    ELSE depois.estado = DISPONIVEL

\* C37: when a vehicle travels on a route of a single node (it is already
\* at the pickup, at the destination or at the station it is sent to), the
\* movement update of the step ends without an exception and takes the
\* vehicle as arrived; a vehicle on its way to a pickup that is its own
\* node comes out in service.
C37_RotaDeUmNoChega ==
    [][\A id \in ComRotaDeUmNo(processar_atribuicoes_inteligente(
                                  AteAoPlano(sim, ultimo'.sorteio, relogio'.agora))) :
          /\ AteAoMovimento(sim, ultimo'.sorteio, relogio'.agora).excecao = NoneId
          /\ DadoComoChegado(
                 processar_atribuicoes_inteligente(
                     AteAoPlano(sim, ultimo'.sorteio, relogio'.agora)).estado.veiculos[id],
                 AteAoMovimento(sim, ultimo'.sorteio, relogio'.agora).estado.veiculos[id])]_vars

-----------------------------------------------------------------------------
\* the vehicles of the Simulador s that hold the request of id pedido_id
VeiculosCom(s, pedido_id) ==
    {id \in Range(s.estado.ordem) : s.estado.veiculos[id].pedido_atual = pedido_id}

\* the binding of vehicles and requests of the Simulador s is consistent
LigacaoCoerente(s) ==
    /\ \A id \in Range(s.estado.ordem) :
          s.estado.veiculos[id].pedido_atual # NoneId
          => /\ TemPedido(s.estado.pedidos_ativos, s.estado.veiculos[id].pedido_atual)
             /\ ObterPedido(s.estado.pedidos_ativos,
                            s.estado.veiculos[id].pedido_atual).veiculo_atribuido = id
             /\ s.estado.veiculos[id].estado \notin {DISPONIVEL, EM_RECARGA, EM_ABASTECIMENTO}
    /\ \A i \in 1..Len(s.estado.pedidos_ativos) :
          /\ VeiculosCom(s, s.estado.pedidos_ativos[i].id)
                = {s.estado.pedidos_ativos[i].veiculo_atribuido}
          /\ s.estado.veiculos[s.estado.pedidos_ativos[i].veiculo_atribuido].estado
                \in {A_CAMINHO, EM_SERVICO}

(***************************************************************************)
(* The map with no road to D and a request that wants to go there: the     *)
(* vehicle reaches the pickup and the search finds no route onwards.       *)
(***************************************************************************)

MaxPassosSemSaida == 40

InitSemSaida ==
    /\ GrafoParado /\ PedidoParado /\ EstacaoParada /\ gemeo = None /\ memoria = None
    /\ \E ordem \in {OrdemFrota, OrdemTaxis}, origem \in {"B", "C"}, destino \in {"D", "A"},
          num_passageiros \in {1, 5}, premium \in BOOLEAN :
        sim = ComPedido(FrotaDe(Simulador(DadosIlha, [i \in Range(OrdemFrota) |-> "A"]),
                                ordem),
                        origem, destino, num_passageiros, premium, INDIFERENTE)
    /\ relogio = [agora |-> 0, intervalo |-> 60]
    /\ ultimo = SemPasso

PassoSemSaida == Passo({NoSorteio}, MaxPassosSemSaida)

NextSemSaida == PassoSemSaida

SpecSemSaida == InitSemSaida /\ [][NextSemSaida]_vars

\* C38: at the end of every step a vehicle holds a request exactly when the
\* request is in the active list with that vehicle assigned; every request
\* of the active list is held by one vehicle, which is on its way or in
\* service; and no vehicle that is available, charging or refuelling holds
\* a request.
C38_LigacaoCoerente ==
    sim # None => LigacaoCoerente(sim)

-----------------------------------------------------------------------------
\* the lists of the Simulador s, by name, that hold the request pedido_id
ListasCom(s, pedido_id) ==
    {nome \in {"pendentes", "ativos", "concluidos"} :
        TemPedido(IF nome = "pendentes" THEN s.estado.pedidos_pendentes
                  ELSE IF nome = "ativos" THEN s.estado.pedidos_ativos
                  ELSE s.estado.pedidos_concluidos, pedido_id)}

\* the lifecycle states of the requests of each list
EstadosDaLista(nome) ==
    IF nome = "pendentes" THEN {PENDENTE}
    ELSE IF nome = "ativos" THEN {ATRIBUIDO, EM_CURSO}
    ELSE {CONCLUIDO, EXPIRADO, CANCELADO, REJEITADO}

\* C39: after any number of steps every request that was ever added to the
\* state is in exactly one of the pending, active and completed lists, and
\* its lifecycle state is one of the states of that list.
C39_CadaPedidoNumaLista ==
    sim # None =>
        \A k \in 1..sim.contador :
            /\ Cardinality(ListasCom(sim, IdsPedidos[k])) = 1
            /\ \A nome \in ListasCom(sim, IdsPedidos[k]) :
                  ObterPedido(TodosOsPedidos(sim), IdsPedidos[k]).estado
                      \in EstadosDaLista(nome)

\* what does hold: no request is in two lists, and the state of a request
\* that is in a list is one of the states of the list
NuncaEmDuasListas ==
    sim # None =>
        \A k \in 1..sim.contador :
            /\ Cardinality(ListasCom(sim, IdsPedidos[k])) <= 1
            /\ \A nome \in ListasCom(sim, IdsPedidos[k]) :
                  ObterPedido(TodosOsPedidos(sim), IdsPedidos[k]).estado
                      \in EstadosDaLista(nome)

-----------------------------------------------------------------------------
\* the simulated seconds the request p of a step-by-step run had waited
\* when the clock of the Simulador s read s.tempo_atual: p was created in
\* the step at which the wall clock read p.timestamp, and every step adds
\* 60 simulated seconds and relogio.intervalo seconds of wall clock
EsperaSimulada(s, p) ==
    s.tempo_atual - 60 * (p.timestamp \div relogio.intervalo)

\* C40: a request created in a step starts with no wait on the clock of
\* escalation and expiry: it is escalated to critical only when 70% of its
\* tempo_espera_maximo has passed in simulated minutes since the step that
\* created it, and expires only when 100% has passed, however many steps
\* had run before.
C40_EsperaDesdeACriacao ==
    sim # None =>
        /\ \A i \in 1..Len(TodosOsPedidos(sim)) :
              TodosOsPedidos(sim)[i].escalado_para_critico
              => 100 * EsperaSimulada(sim, TodosOsPedidos(sim)[i])
                    >= 70 * 60 * TodosOsPedidos(sim)[i].tempo_espera_maximo
        /\ \A j \in 1..Len(ultimo.expirados) :
              EsperaSimulada(sim, ultimo.expirados[j])
                 >= 60 * ultimo.expirados[j].tempo_espera_maximo

\* what does hold: when the wall clock gains a minute at every step, as the
\* simulated clock does, the waits are counted from the creation
EsperaDesdeACriacaoAoMinuto ==
    (sim # None /\ relogio.intervalo = 60) =>
        /\ \A i \in 1..Len(TodosOsPedidos(sim)) :
              TodosOsPedidos(sim)[i].escalado_para_critico
              => 100 * EsperaSimulada(sim, TodosOsPedidos(sim)[i])
                    >= 70 * 60 * TodosOsPedidos(sim)[i].tempo_espera_maximo
        /\ \A j \in 1..Len(ultimo.expirados) :
              EsperaSimulada(sim, ultimo.expirados[j])
                 >= 60 * ultimo.expirados[j].tempo_espera_maximo

=============================================================================
